---- MODULE Spec2Model ----
(***************************************************************************)
(* Geometry and alignment engine of react-native-windowkit                 *)
(* (utils/geometry.ts): bounds clamping, drag/resize snap resolution and   *)
(* drag/resize hint resolution, exercised by two state machines:           *)
(*   SpecClamp  - applies clampWindowToBounds to rectangles drawn from a   *)
(*                bounded set;                                             *)
(*   Spec       - applies the four resolvers frame by frame, threading     *)
(*                the drag snap target of a frame into the next call as    *)
(*                stickyTo, the way useSnapTarget does.                    *)
(* All coordinates are integers; sizes and canvas extents of the inputs    *)
(* are even, so that the centre lines (a sum of two edges divided by 2)    *)
(* are computed exactly as the floating point code computes them.          *)
(***************************************************************************)
EXTENDS Integers, Sequences, FiniteSets, TLC

VARIABLES
    rect,        \* SpecClamp: the rectangle handed to clampWindowToBounds
    rectCanvas,  \* SpecClamp: the canvas handed to clampWindowToBounds
    clamped,     \* SpecClamp: the rectangle returned (Null before the call)
    interaction, \* Spec: [type, direction] of the interaction in progress
    active,      \* Spec: the window being dragged / resized, as proposed
    others,      \* Spec: the sibling list handed to the resolvers
    canvas,      \* Spec: the canvas size (Null when not measured yet)
    config,      \* Spec: the resolved SnapConfig
    hintConfig,  \* Spec: the resolved HintConfig
    stickyTo,    \* Spec: the stickyTo argument of the last snap call
    snapTarget,  \* Spec: the snap target returned by the last frame
    hint,        \* Spec: [target, guides] returned by the last frame
    mode,        \* provider state: 'locked' or 'unlocked'
    snapEnabled, \* provider state: snapping switched on
    windows,     \* provider state: the window list, with zIndex
    zCounter,    \* provider state: the highest zIndex handed out
    activeId,    \* provider state: the focused window (Null when none)
    lastAction,  \* SpecStore: the provider action performed last
    gesture,     \* SpecView: the pan gesture in progress on the UI thread
    jsQueue,     \* SpecView: the runOnJS calls not yet run, oldest first
    released     \* SpecView: what the last handleRelease saw and did

vars == <<rect, rectCanvas, clamped, interaction, active, others, canvas,
          config, hintConfig, stickyTo, snapTarget, hint, mode, snapEnabled,
          windows, zCounter, activeId, lastAction, gesture, jsQueue,
          released>>

clampVars == <<rect, rectCanvas, clamped>>
snapVars == <<interaction, active, others, canvas, config, hintConfig,
              stickyTo, snapTarget, hint>>
storeVars == <<mode, snapEnabled, windows, zCounter, activeId, lastAction>>
viewVars == <<gesture, jsQueue, released>>

----------------------------------------------------------------------------
(* Values                                                                  *)

\* null / undefined
Null == [null |-> TRUE]

\* the null of an id-valued slot (activeId: string | null)
NullId == "null"

\* the value of stickyTo before the first frame of an interaction
NotCalled == [notCalled |-> TRUE]

\* Number.POSITIVE_INFINITY: larger than every coordinate of the model
POSITIVE_INFINITY == 1000000

\* WINDOW_STYLE_DEFAULTS.minWidth / minHeight
DEFAULT_MIN_WIDTH == 320
DEFAULT_MIN_HEIGHT == 240

\* SNAP_BEHAVIOR_DEFAULTS.distance / overlap
SNAP_DISTANCE == 32
SNAP_OVERLAP == 64

\* the id of the synthetic canvas rectangle
CANVAS_ID == "__canvas__"

Min2(a, b) == IF a <= b THEN a ELSE b
Max2(a, b) == IF a >= b THEN a ELSE b
Min3(a, b, c) == Min2(a, Min2(b, c))
Max3(a, b, c) == Max2(a, Max2(b, c))
Abs(a) == IF a < 0 THEN -a ELSE a

\* Array.from(new Set(s)): first occurrences, in order
RECURSIVE Dedupe(_)
Dedupe(s) ==
    IF s = <<>> THEN <<>>
    ELSE LET front == Dedupe(SubSeq(s, 1, Len(s) - 1))
             last == s[Len(s)]
         IN IF \E i \in 1..Len(front) : front[i] = last
            THEN front
            ELSE Append(front, last)

SeqToSet(s) == {s[i] : i \in 1..Len(s)}

----------------------------------------------------------------------------
(* Bounds Clamper                                                          *)

\* windowStyleFor(window).<key>: the per-window override, else the default
HasStyle(window, key) == key \in DOMAIN window.windowStyle

resolveMinWidth(window) ==
    IF HasStyle(window, "minWidth") THEN window.windowStyle.minWidth
    ELSE DEFAULT_MIN_WIDTH

resolveMinHeight(window) ==
    IF HasStyle(window, "minHeight") THEN window.windowStyle.minHeight
    ELSE DEFAULT_MIN_HEIGHT

resolveMaxWidth(window, cv) ==
    LET canvasLimit == IF cv # Null THEN cv.width ELSE POSITIVE_INFINITY
        custom == IF HasStyle(window, "maxWidth")
                  THEN window.windowStyle.maxWidth ELSE POSITIVE_INFINITY
    IN Min2(custom, canvasLimit)

resolveMaxHeight(window, cv) ==
    LET canvasLimit == IF cv # Null THEN cv.height ELSE POSITIVE_INFINITY
        custom == IF HasStyle(window, "maxHeight")
                  THEN window.windowStyle.maxHeight ELSE POSITIVE_INFINITY
    IN Min2(custom, canvasLimit)

\* clampWindowToBounds with the position limit taken from the unclamped width
clampWindowToBounds_rawMaxX(window, cv) ==
    LET minWidth == resolveMinWidth(window)
        minHeight == resolveMinHeight(window)
        maxWidth == resolveMaxWidth(window, cv)
        maxHeight == resolveMaxHeight(window, cv)
        width1 == Min2(Max2(minWidth, window.width), maxWidth)
        height1 == Min2(Max2(minHeight, window.height), maxHeight)
        maxX == IF cv # Null THEN cv.width - window.width ELSE window.x
        maxY == IF cv # Null THEN cv.height - window.height ELSE window.y
        x == Min2(Max2(0, window.x), maxX)
        y == Min2(Max2(0, window.y), maxY)
        width2 == IF cv # Null THEN Min3(width1, cv.width - x, maxWidth)
                  ELSE width1
        height2 == IF cv # Null THEN Min3(height1, cv.height - y, maxHeight)
                   ELSE height1
    IN [window EXCEPT !.x = x, !.y = y,
                      !.width = Max2(width2, 0),
                      !.height = Max2(height2, 0)]

\* clampWindowToBounds without the upper limit on the position
clampWindowToBounds_noMaxX(window, cv) ==
    LET minWidth == resolveMinWidth(window)
        minHeight == resolveMinHeight(window)
        maxWidth == resolveMaxWidth(window, cv)
        maxHeight == resolveMaxHeight(window, cv)
        width1 == Min2(Max2(minWidth, window.width), maxWidth)
        height1 == Min2(Max2(minHeight, window.height), maxHeight)
        x == Max2(0, window.x)
        y == Max2(0, window.y)
        width2 == IF cv # Null THEN Min3(width1, cv.width - x, maxWidth)
                  ELSE width1
        height2 == IF cv # Null THEN Min3(height1, cv.height - y, maxHeight)
                   ELSE height1
    IN [window EXCEPT !.x = x, !.y = y,
                      !.width = Max2(width2, 0),
                      !.height = Max2(height2, 0)]

\* clampWindowToBounds without the lower size limit
clampWindowToBounds_noMin(window, cv) ==
    LET maxWidth == resolveMaxWidth(window, cv)
        maxHeight == resolveMaxHeight(window, cv)
        width1 == Min2(window.width, maxWidth)
        height1 == Min2(window.height, maxHeight)
        maxX == IF cv # Null THEN Max2(cv.width - width1, 0) ELSE window.x
        maxY == IF cv # Null THEN Max2(cv.height - height1, 0) ELSE window.y
        x == Min2(Max2(0, window.x), maxX)
        y == Min2(Max2(0, window.y), maxY)
        width2 == IF cv # Null THEN Min3(width1, cv.width - x, maxWidth)
                  ELSE width1
        height2 == IF cv # Null THEN Min3(height1, cv.height - y, maxHeight)
                   ELSE height1
    IN [window EXCEPT !.x = x, !.y = y,
                      !.width = Max2(width2, 0),
                      !.height = Max2(height2, 0)]

\* clampWindowToBounds without the lower limit 0 of the position
clampWindowToBounds_noFloor(window, cv) ==
    LET minWidth == resolveMinWidth(window)
        minHeight == resolveMinHeight(window)
        maxWidth == resolveMaxWidth(window, cv)
        maxHeight == resolveMaxHeight(window, cv)
        width0 == Min2(Max2(minWidth, window.width), maxWidth)
        height0 == Min2(Max2(minHeight, window.height), maxHeight)
        width1 == IF cv # Null THEN Min2(width0, cv.width) ELSE width0
        height1 == IF cv # Null THEN Min2(height0, cv.height) ELSE height0
        maxX == IF cv # Null THEN Max2(cv.width - width1, 0) ELSE window.x
        maxY == IF cv # Null THEN Max2(cv.height - height1, 0) ELSE window.y
        x == Min2(window.x, maxX)
        y == Min2(window.y, maxY)
        width2 == IF cv # Null THEN Min3(width1, cv.width - x, maxWidth)
                  ELSE width1
        height2 == IF cv # Null THEN Min3(height1, cv.height - y, maxHeight)
                   ELSE height1
    IN [window EXCEPT !.x = x, !.y = y,
                      !.width = Max2(width2, 0),
                      !.height = Max2(height2, 0)]

clampWindowToBounds(window, cv) ==
    LET minWidth == resolveMinWidth(window)
        minHeight == resolveMinHeight(window)
        maxWidth == resolveMaxWidth(window, cv)
        maxHeight == resolveMaxHeight(window, cv)
        width0 == Min2(Max2(minWidth, window.width), maxWidth)
        height0 == Min2(Max2(minHeight, window.height), maxHeight)
        width1 == IF cv # Null THEN Min2(width0, cv.width) ELSE width0
        height1 == IF cv # Null THEN Min2(height0, cv.height) ELSE height0
        \* maxX ?? window.x, maxY ?? window.y
        maxX == IF cv # Null THEN Max2(cv.width - width1, 0) ELSE window.x
        maxY == IF cv # Null THEN Max2(cv.height - height1, 0) ELSE window.y
        x == Min2(Max2(0, window.x), maxX)
        y == Min2(Max2(0, window.y), maxY)
        width2 == IF cv # Null THEN Min3(width1, cv.width - x, maxWidth)
                  ELSE width1
        height2 == IF cv # Null THEN Min3(height1, cv.height - y, maxHeight)
                   ELSE height1
    IN [window EXCEPT !.x = x, !.y = y,
                      !.width = Max2(width2, 0),
                      !.height = Max2(height2, 0)]

----------------------------------------------------------------------------
(* Candidate Builder and Candidate Selector                                *)

RECURSIVE ConcatAll(_)
ConcatAll(ss) ==
    IF ss = <<>> THEN <<>>
    ELSE ConcatAll(SubSeq(ss, 1, Len(ss) - 1)) \o ss[Len(ss)]

\* the element pushed whatever the condition of the if statement is
PushIf_always(cond, elem) == <<elem>>

\* the element pushed when the condition of an if statement holds
PushIf(cond, elem) == IF cond THEN <<elem>> ELSE <<>>

windowEdges(window) ==
    [left |-> window.x, right |-> window.x + window.width,
     top |-> window.y, bottom |-> window.y + window.height]

canvasToWindow(cv) ==
    IF cv # Null
    THEN [id |-> CANVAS_ID, x |-> 0, y |-> 0, width |-> cv.width,
          height |-> cv.height, zIndex |-> 0, windowStyle |-> <<>>]
    ELSE Null

computeOverlap(startA, endA, startB, endB) ==
    Min2(endA, endB) - Max2(startA, startB)

computeGap(startA, endA, startB, endB) ==
    Max3(startB - endA, startA - endB, 0)

\* withinSnapThreshold requiring both the overlap and the gap condition
withinSnapThreshold_both(overlap, gap, snapOverlap, snapDistance) ==
    overlap > snapOverlap /\ gap <= snapDistance

withinSnapThreshold(overlap, gap, snapOverlap, snapDistance) ==
    overlap > snapOverlap \/ gap <= snapDistance

\* buildSnapCandidate keeping the shifted rectangle as it is
buildSnapCandidate_unclamped(act, edge, window, targetId, distance, cv) ==
    [activeId |-> act.id, targetIds |-> <<targetId>>, edges |-> <<edge>>,
     window |-> window, distance |-> distance]

buildSnapCandidate(act, edge, window, targetId, distance, cv) ==
    [activeId |-> act.id, targetIds |-> <<targetId>>, edges |-> <<edge>>,
     window |-> clampWindowToBounds(window, cv), distance |-> distance]

\* pickBestSnap returning the first candidate pushed, whatever its distance
pickBestSnap_first(candidates) ==
    IF candidates = <<>> THEN Null ELSE candidates[1]

\* pickBestSnap replacing the current best also at equal distance: the last
\* candidate of minimal distance
pickBestSnap_lastOfTies(candidates) ==
    IF candidates = <<>> THEN Null
    ELSE candidates[CHOOSE k \in 1..Len(candidates) :
             /\ \A j \in 1..Len(candidates) :
                   candidates[k].distance <= candidates[j].distance
             /\ \A j \in (k + 1)..Len(candidates) :
                   candidates[k].distance < candidates[j].distance]

\* candidates.reduce(...): the first candidate of minimal distance
RECURSIVE pickBestSnap(_)
pickBestSnap(candidates) ==
    IF candidates = <<>> THEN Null
    ELSE LET closest == pickBestSnap(SubSeq(candidates, 1, Len(candidates) - 1))
             next == candidates[Len(candidates)]
         IN IF closest = Null \/ next.distance < closest.distance
            THEN next ELSE closest

\* the combineWindows callback leaving the active window where it is on the
\* horizontal axis
snapCombineWindows_keepsX(act, horizontal, vertical) ==
    [act EXCEPT !.y = vertical.window.y, !.height = vertical.window.height]

\* the combineWindows callback both snap resolvers hand to selectBestTarget
snapCombineWindows(act, horizontal, vertical) ==
    [act EXCEPT !.x = horizontal.window.x, !.y = vertical.window.y,
                !.width = horizontal.window.width,
                !.height = vertical.window.height]

\* mergeTargets with the callback selectBestTarget builds: the clamp of the
\* resolver's combineWindows
mergeTargets(horizontal, vertical, act, cv) ==
    IF horizontal = Null \/ vertical = Null THEN Null
    ELSE [activeId |-> horizontal.activeId,
          targetIds |-> Dedupe(horizontal.targetIds \o vertical.targetIds),
          edges |-> Dedupe(horizontal.edges \o vertical.edges),
          window |-> clampWindowToBounds(
                         snapCombineWindows(act, horizontal, vertical), cv),
          distance |-> horizontal.distance + vertical.distance]

selectBestTarget(horizontalCandidates, verticalCandidates, act, cv) ==
    LET closestHorizontal == pickBestSnap(horizontalCandidates)
        closestVertical == pickBestSnap(verticalCandidates)
        combined == mergeTargets(closestHorizontal, closestVertical, act, cv)
        closestSingle == pickBestSnap(horizontalCandidates \o verticalCandidates)
    IN IF combined # Null THEN combined ELSE closestSingle

\* the cross-axis gates of one sibling
verticallyAligned(act, other, cfg) ==
    LET a == windowEdges(act)
        o == windowEdges(other)
    IN withinSnapThreshold(computeOverlap(a.top, a.bottom, o.top, o.bottom),
                           computeGap(a.top, a.bottom, o.top, o.bottom),
                           cfg.overlap, cfg.distance)

horizontallyAligned(act, other, cfg) ==
    LET a == windowEdges(act)
        o == windowEdges(other)
    IN withinSnapThreshold(computeOverlap(a.left, a.right, o.left, o.right),
                           computeGap(a.left, a.right, o.left, o.right),
                           cfg.overlap, cfg.distance)

----------------------------------------------------------------------------
(* Snap Resolver: drag                                                     *)

\* the candidates one sibling pushes on horizontalCandidates, in push order
dragHorizontalCandidates(act, other, cv, cfg) ==
    IF other.id = act.id \/ ~verticallyAligned(act, other, cfg) THEN <<>>
    ELSE LET a == windowEdges(act)
             o == windowEdges(other)
             distanceToRight == Abs(o.left - a.right)
             distanceToSameRight == Abs(o.right - a.right)
             distanceToLeft == Abs(a.left - o.right)
             distanceToSameLeft == Abs(a.left - o.left)
         IN PushIf(distanceToRight <= cfg.distance,
                   buildSnapCandidate(act, "right",
                       [act EXCEPT !.x = o.left - act.width],
                       other.id, distanceToRight, cv))
            \o PushIf(distanceToSameRight <= cfg.distance,
                   buildSnapCandidate(act, "right",
                       [act EXCEPT !.x = o.right - act.width],
                       other.id, distanceToSameRight, cv))
            \o PushIf(distanceToLeft <= cfg.distance,
                   buildSnapCandidate(act, "left",
                       [act EXCEPT !.x = o.right],
                       other.id, distanceToLeft, cv))
            \o PushIf(distanceToSameLeft <= cfg.distance,
                   buildSnapCandidate(act, "left",
                       [act EXCEPT !.x = o.left],
                       other.id, distanceToSameLeft, cv))

\* the candidates one sibling pushes on verticalCandidates, in push order
dragVerticalCandidates(act, other, cv, cfg) ==
    IF other.id = act.id \/ ~horizontallyAligned(act, other, cfg) THEN <<>>
    ELSE LET a == windowEdges(act)
             o == windowEdges(other)
             distanceToBottom == Abs(a.top - o.bottom)
             distanceToSameBottom == Abs(a.bottom - o.bottom)
             distanceToTop == Abs(o.top - a.bottom)
             distanceToSameTop == Abs(a.top - o.top)
         IN PushIf(distanceToBottom <= cfg.distance,
                   buildSnapCandidate(act, "top",
                       [act EXCEPT !.y = o.bottom],
                       other.id, distanceToBottom, cv))
            \o PushIf(distanceToTop <= cfg.distance,
                   buildSnapCandidate(act, "bottom",
                       [act EXCEPT !.y = o.top - act.height],
                       other.id, distanceToTop, cv))
            \o PushIf(distanceToSameBottom <= cfg.distance,
                   buildSnapCandidate(act, "bottom",
                       [act EXCEPT !.y = o.bottom - act.height],
                       other.id, distanceToSameBottom, cv))
            \o PushIf(distanceToSameTop <= cfg.distance,
                   buildSnapCandidate(act, "top",
                       [act EXCEPT !.y = o.top],
                       other.id, distanceToSameTop, cv))

\* stickyTo.edges.every(...): each sticky edge still within the distance
\* withinSticky taking every sticky target for in range
withinSticky_always(act, sticky, cfg) == TRUE

withinSticky(act, sticky, cfg) ==
    LET a == windowEdges(act)
        s == windowEdges(sticky.window)
    IN \A i \in 1..Len(sticky.edges) :
          LET edge == sticky.edges[i]
          IN \/ edge = "left" /\ Abs(a.left - s.left) <= cfg.distance
             \/ edge = "right" /\ Abs(a.right - s.right) <= cfg.distance
             \/ edge = "top" /\ Abs(a.top - s.top) <= cfg.distance
             \/ edge = "bottom" /\ Abs(a.bottom - s.bottom) <= cfg.distance

\* horizontalCandidates / verticalCandidates after others.forEach
dragCandidates(act, oths, cv, cfg) ==
    [horizontal |-> ConcatAll([i \in 1..Len(oths) |->
                        dragHorizontalCandidates(act, oths[i], cv, cfg)]),
     vertical |-> ConcatAll([i \in 1..Len(oths) |->
                        dragVerticalCandidates(act, oths[i], cv, cfg)])]

\* computeDragSnapTarget without stickiness
computeDragSnapTarget_noSticky(act, oths, cv, sticky, cfg) ==
    LET candidates == dragCandidates(act, oths, cv, cfg)
    IN selectBestTarget(candidates.horizontal, candidates.vertical,
                         act, cv)

\* computeDragSnapTarget without the check of stickyTo.activeId
computeDragSnapTarget_anySticky(act, oths, cv, sticky, cfg) ==
    LET candidates == dragCandidates(act, oths, cv, cfg)
        candidate == selectBestTarget(candidates.horizontal, candidates.vertical,
                         act, cv)
    IN IF candidate = Null /\ sticky # Null /\ withinSticky(act, sticky, cfg)
       THEN sticky
       ELSE candidate

computeDragSnapTarget(act, oths, cv, sticky, cfg) ==
    LET candidates == dragCandidates(act, oths, cv, cfg)
        candidate == selectBestTarget(candidates.horizontal, candidates.vertical,
                         act, cv)
    IN IF candidate = Null /\ sticky # Null /\ sticky.activeId = act.id
          /\ withinSticky(act, sticky, cfg)
       THEN sticky
       ELSE candidate

----------------------------------------------------------------------------
(* Snap Resolver: resize                                                   *)

movesTop(direction) == direction \in {"n", "ne", "nw"}
movesBottom(direction) == direction \in {"s", "se", "sw"}
\* movesRight taking a resize from the west handle for one of the right edge
movesRight_withWest(direction) == direction \in {"e", "ne", "se", "w"}
movesRight(direction) == direction \in {"e", "ne", "se"}
movesLeft(direction) == direction \in {"w", "nw", "sw"}

\* addHorizontal / addVertical: the candidate pushed for one edge
resizeHorizontalWindow(act, edge, targetEdge, cv) ==
    IF edge = "right"
    THEN clampWindowToBounds([act EXCEPT !.width = targetEdge - act.x], cv)
    ELSE clampWindowToBounds(
             [act EXCEPT !.x = targetEdge,
                         !.width = windowEdges(act).right - targetEdge], cv)

\* resizeVerticalWindow keeping the resized rectangle as it is
resizeVerticalWindow_unclamped(act, edge, targetEdge, cv) ==
    IF edge = "bottom"
    THEN [act EXCEPT !.height = targetEdge - act.y]
    ELSE [act EXCEPT !.y = targetEdge,
                     !.height = windowEdges(act).bottom - targetEdge]

resizeVerticalWindow(act, edge, targetEdge, cv) ==
    IF edge = "bottom"
    THEN clampWindowToBounds([act EXCEPT !.height = targetEdge - act.y], cv)
    ELSE clampWindowToBounds(
             [act EXCEPT !.y = targetEdge,
                         !.height = windowEdges(act).bottom - targetEdge], cv)

addHorizontal(act, edge, targetEdge, distance, targetId, cv) ==
    [activeId |-> act.id, targetIds |-> <<targetId>>, edges |-> <<edge>>,
     window |-> resizeHorizontalWindow(act, edge, targetEdge, cv),
     distance |-> distance]

addVertical(act, edge, targetEdge, distance, targetId, cv) ==
    [activeId |-> act.id, targetIds |-> <<targetId>>, edges |-> <<edge>>,
     window |-> resizeVerticalWindow(act, edge, targetEdge, cv),
     distance |-> distance]

resizeHorizontalCandidates(act, other, direction, cv, cfg) ==
    IF \/ other.id = act.id
       \/ ~(movesRight(direction) \/ movesLeft(direction))
       \/ ~verticallyAligned(act, other, cfg)
    THEN <<>>
    ELSE LET a == windowEdges(act)
             o == windowEdges(other)
             distanceToLeft == Abs(o.left - a.right)
             distanceToRight == Abs(o.right - a.right)
             distanceFromLeft == Abs(a.left - o.left)
             distanceFromRight == Abs(a.left - o.right)
             rightPart ==
                 PushIf(distanceToLeft <= cfg.distance,
                        addHorizontal(act, "right", o.left, distanceToLeft,
                                      other.id, cv))
                 \o PushIf(distanceToRight <= cfg.distance,
                        addHorizontal(act, "right", o.right, distanceToRight,
                                      other.id, cv))
             leftPart ==
                 PushIf(distanceFromLeft <= cfg.distance,
                        addHorizontal(act, "left", o.left, distanceFromLeft,
                                      other.id, cv))
                 \o PushIf(distanceFromRight <= cfg.distance,
                        addHorizontal(act, "left", o.right, distanceFromRight,
                                      other.id, cv))
         IN IF movesRight(direction) /\ movesLeft(direction)
            THEN rightPart \o leftPart
            ELSE IF movesRight(direction) THEN rightPart
            ELSE leftPart

resizeVerticalCandidates(act, other, direction, cv, cfg) ==
    IF \/ other.id = act.id
       \/ ~(movesTop(direction) \/ movesBottom(direction))
       \/ ~horizontallyAligned(act, other, cfg)
    THEN <<>>
    ELSE LET a == windowEdges(act)
             o == windowEdges(other)
             distanceToTop == Abs(o.top - a.bottom)
             distanceToBottom == Abs(o.bottom - a.bottom)
             distanceFromTop == Abs(a.top - o.top)
             distanceFromBottom == Abs(a.top - o.bottom)
             bottomPart ==
                 PushIf(distanceToTop <= cfg.distance,
                        addVertical(act, "bottom", o.top, distanceToTop,
                                    other.id, cv))
                 \o PushIf(distanceToBottom <= cfg.distance,
                        addVertical(act, "bottom", o.bottom, distanceToBottom,
                                    other.id, cv))
             topPart ==
                 PushIf(distanceFromTop <= cfg.distance,
                        addVertical(act, "top", o.top, distanceFromTop,
                                    other.id, cv))
                 \o PushIf(distanceFromBottom <= cfg.distance,
                        addVertical(act, "top", o.bottom, distanceFromBottom,
                                    other.id, cv))
         IN IF movesTop(direction) /\ movesBottom(direction)
            THEN bottomPart \o topPart
            ELSE IF movesBottom(direction) THEN bottomPart
            ELSE topPart

\* horizontalCandidates / verticalCandidates after others.forEach
resizeCandidates(act, oths, direction, cv, cfg) ==
    [horizontal |-> ConcatAll([i \in 1..Len(oths) |->
            resizeHorizontalCandidates(act, oths[i], direction, cv, cfg)]),
     vertical |-> ConcatAll([i \in 1..Len(oths) |->
            resizeVerticalCandidates(act, oths[i], direction, cv, cfg)])]

computeResizeSnapTarget(act, oths, direction, cv, cfg) ==
    LET candidates == resizeCandidates(act, oths, direction, cv, cfg)
    IN selectBestTarget(candidates.horizontal, candidates.vertical,
                         act, cv)

----------------------------------------------------------------------------
(* Hint Resolver                                                           *)

buildGuide(actId, targetId, orientation, position, activeEdges, targetEdges, edge) ==
    LET isVertical == orientation = "vertical"
    IN [activeId |-> actId, targetIds |-> <<targetId>>,
        orientation |-> orientation, position |-> position,
        start |-> IF isVertical THEN Min2(activeEdges.top, targetEdges.top)
                  ELSE Min2(activeEdges.left, targetEdges.left),
        end |-> IF isVertical THEN Max2(activeEdges.bottom, targetEdges.bottom)
                ELSE Max2(activeEdges.right, targetEdges.right),
        edge |-> edge]

\* pickBestAxisCandidate keeping the candidate considered last
pickBestAxisCandidate_latest(current, next) == next

pickBestAxisCandidate(current, next) ==
    IF current = Null \/ next.distance < current.distance
    THEN next ELSE current

\* pickBestAxisCandidate applied to the candidates in the order considered
RECURSIVE FoldAxis(_)
FoldAxis(candidates) ==
    IF candidates = <<>> THEN Null
    ELSE pickBestAxisCandidate(
             FoldAxis(SubSeq(candidates, 1, Len(candidates) - 1)),
             candidates[Len(candidates)])

\* the centre of two edges; exact for the even extents of the model
Half(n) == n \div 2

\* considerHorizontal of buildHintAxisCandidates: the candidate, if kept
hintHorizontalCandidate(act, target, cv, limitDistance, edge, targetEdge) ==
    LET activeEdges == windowEdges(act)
        activePosition ==
            IF edge = "left" THEN activeEdges.left
            ELSE IF edge = "right" THEN activeEdges.right
            ELSE Half(activeEdges.left + activeEdges.right)
        distance == Abs(activePosition - targetEdge)
        x == IF edge = "left" THEN targetEdge
             ELSE IF edge = "right" THEN targetEdge - act.width
             ELSE targetEdge - Half(act.width)
    IN PushIf(distance <= limitDistance,
              [window |-> clampWindowToBounds([act EXCEPT !.x = x], cv),
               guide |-> buildGuide(act.id, target.id, "vertical", targetEdge,
                                    activeEdges, windowEdges(target), edge),
               edge |-> edge, targetIds |-> <<target.id>>,
               distance |-> distance])

hintVerticalCandidate(act, target, cv, limitDistance, edge, targetEdge) ==
    LET activeEdges == windowEdges(act)
        activePosition ==
            IF edge = "top" THEN activeEdges.top
            ELSE IF edge = "bottom" THEN activeEdges.bottom
            ELSE Half(activeEdges.top + activeEdges.bottom)
        distance == Abs(activePosition - targetEdge)
        y == IF edge = "top" THEN targetEdge
             ELSE IF edge = "bottom" THEN targetEdge - act.height
             ELSE targetEdge - Half(act.height)
    IN PushIf(distance <= limitDistance,
              [window |-> clampWindowToBounds([act EXCEPT !.y = y], cv),
               guide |-> buildGuide(act.id, target.id, "horizontal", targetEdge,
                                    activeEdges, windowEdges(target), edge),
               edge |-> edge, targetIds |-> <<target.id>>,
               distance |-> distance])

\* the horizontal / vertical result of buildHintAxisCandidates: the best of
\* the five candidates of the axis, in the order considered
hintHorizontalBest(act, target, cv, limitDistance) ==
    LET t == windowEdges(target)
        targetCenterX == Half(t.left + t.right)
    IN FoldAxis(
        hintHorizontalCandidate(act, target, cv, limitDistance, "left", t.left)
        \o hintHorizontalCandidate(act, target, cv, limitDistance, "left", t.right)
        \o hintHorizontalCandidate(act, target, cv, limitDistance, "right", t.left)
        \o hintHorizontalCandidate(act, target, cv, limitDistance, "right", t.right)
        \o hintHorizontalCandidate(act, target, cv, limitDistance, "centerX",
                                   targetCenterX))

hintVerticalBest(act, target, cv, limitDistance) ==
    LET t == windowEdges(target)
        targetCenterY == Half(t.top + t.bottom)
    IN FoldAxis(
        hintVerticalCandidate(act, target, cv, limitDistance, "top", t.top)
        \o hintVerticalCandidate(act, target, cv, limitDistance, "top", t.bottom)
        \o hintVerticalCandidate(act, target, cv, limitDistance, "bottom", t.top)
        \o hintVerticalCandidate(act, target, cv, limitDistance, "bottom", t.bottom)
        \o hintVerticalCandidate(act, target, cv, limitDistance, "centerY",
                                 targetCenterY))

buildHintAxisCandidates(act, target, cv, limitDistance) ==
    [horizontal |-> hintHorizontalBest(act, target, cv, limitDistance),
     vertical |-> hintVerticalBest(act, target, cv, limitDistance)]

combineHintTargets(act, horizontal, vertical, cv) ==
    IF horizontal = Null /\ vertical = Null THEN Null
    ELSE LET withX == IF horizontal # Null
                      THEN [act EXCEPT !.x = horizontal.window.x,
                                       !.width = horizontal.window.width]
                      ELSE act
             withY == IF vertical # Null
                      THEN [withX EXCEPT !.y = vertical.window.y,
                                         !.height = vertical.window.height]
                      ELSE withX
             hd == IF horizontal # Null THEN horizontal.distance ELSE 0
             vd == IF vertical # Null THEN vertical.distance ELSE 0
             distance == hd + vd
         IN [activeId |-> act.id,
             targetIds |-> Dedupe(
                 (IF horizontal # Null THEN horizontal.targetIds ELSE <<>>)
                 \o (IF vertical # Null THEN vertical.targetIds ELSE <<>>)),
             edges |-> (IF horizontal # Null THEN <<horizontal.edge>> ELSE <<>>)
                       \o (IF vertical # Null THEN <<vertical.edge>> ELSE <<>>),
             window |-> clampWindowToBounds(withY, cv),
             \* distance || horizontal?.distance || vertical?.distance || 0
             distance |-> IF distance # 0 THEN distance
                          ELSE IF hd # 0 THEN hd
                          ELSE IF vd # 0 THEN vd ELSE 0]

\* hintTargets without the canvas rectangle
hintTargets_noCanvas(oths, cv) == oths

\* the targets of the hint resolvers: the siblings, then the canvas rectangle
hintTargets(oths, cv) ==
    IF canvasToWindow(cv) # Null THEN Append(oths, canvasToWindow(cv)) ELSE oths

\* guides.push(...) of the two guide winners
hintGuides(guideHorizontal, guideVertical) ==
    (IF guideHorizontal # Null THEN <<guideHorizontal.guide>> ELSE <<>>)
    \o (IF guideVertical # Null THEN <<guideVertical.guide>> ELSE <<>>)

\* the non-null entries of a sequence, in order
NonNull(s) == SelectSeq(s, LAMBDA c : c # Null)

\* hintAxisCandidates without the skip of the active window's own entry
hintAxisCandidates_withSelf(act, targets, cv, limitDistance) ==
    [i \in 1..Len(targets) |->
        buildHintAxisCandidates(act, targets[i], cv, limitDistance)]

\* buildHintAxisCandidates of every target that is not the active window
hintAxisCandidates(act, targets, cv, limitDistance) ==
    [i \in 1..Len(targets) |->
        IF targets[i].id = act.id
        THEN [horizontal |-> Null, vertical |-> Null]
        ELSE buildHintAxisCandidates(act, targets[i], cv, limitDistance)]

computeDragHintTarget(act, oths, cv, hcfg) ==
    LET hintDistance == hcfg.distance
        snapDistance == hcfg.snap.distance
        targets == hintTargets(oths, cv)
        guideCandidates == hintAxisCandidates(act, targets, cv, hintDistance)
        snapCandidates == hintAxisCandidates(act, targets, cv, snapDistance)
        guideHorizontal ==
            FoldAxis(NonNull([i \in 1..Len(targets) |->
                                 guideCandidates[i].horizontal]))
        guideVertical ==
            FoldAxis(NonNull([i \in 1..Len(targets) |->
                                 guideCandidates[i].vertical]))
        snapHorizontal ==
            FoldAxis(NonNull([i \in 1..Len(targets) |->
                                 snapCandidates[i].horizontal]))
        snapVertical ==
            FoldAxis(NonNull([i \in 1..Len(targets) |->
                                 snapCandidates[i].vertical]))
    IN [target |-> combineHintTargets(act, snapHorizontal, snapVertical, cv),
        guides |-> hintGuides(guideHorizontal, guideVertical)]

\* considerHorizontal of computeResizeHintTarget: the candidate, if kept
resizeHintHorizontal(act, target, direction, cv, hcfg, edge, targetEdge) ==
    LET activeEdges == windowEdges(act)
        distance == IF edge = "left" THEN Abs(activeEdges.left - targetEdge)
                    ELSE Abs(activeEdges.right - targetEdge)
    IN IF \/ (edge = "left" /\ ~movesLeft(direction))
          \/ (edge = "right" /\ ~movesRight(direction))
          \/ (distance > hcfg.distance /\ distance > hcfg.snap.distance)
       THEN <<>>
       ELSE <<[window |-> resizeHorizontalWindow(act, edge, targetEdge, cv),
               edge |-> edge, targetIds |-> <<target.id>>,
               distance |-> distance,
               guide |-> buildGuide(act.id, target.id, "vertical", targetEdge,
                                    activeEdges, windowEdges(target), edge)]>>

resizeHintVertical(act, target, direction, cv, hcfg, edge, targetEdge) ==
    LET activeEdges == windowEdges(act)
        distance == IF edge = "top" THEN Abs(activeEdges.top - targetEdge)
                    ELSE Abs(activeEdges.bottom - targetEdge)
    IN IF \/ (edge = "top" /\ ~movesTop(direction))
          \/ (edge = "bottom" /\ ~movesBottom(direction))
          \/ (distance > hcfg.distance /\ distance > hcfg.snap.distance)
       THEN <<>>
       ELSE <<[window |-> resizeVerticalWindow(act, edge, targetEdge, cv),
               edge |-> edge, targetIds |-> <<target.id>>,
               distance |-> distance,
               guide |-> buildGuide(act.id, target.id, "horizontal", targetEdge,
                                    activeEdges, windowEdges(target), edge)]>>

\* the candidates of one axis over all targets, in the order considered
resizeHintCandidates(act, targets, direction, cv, hcfg, axis) ==
    ConcatAll([i \in 1..Len(targets) |->
        IF targets[i].id = act.id THEN <<>>
        ELSE LET target == targets[i]
                 t == windowEdges(target)
             IN IF axis = "horizontal"
                THEN resizeHintHorizontal(act, target, direction, cv, hcfg, "left", t.left)
                     \o resizeHintHorizontal(act, target, direction, cv, hcfg, "left", t.right)
                     \o resizeHintHorizontal(act, target, direction, cv, hcfg, "right", t.left)
                     \o resizeHintHorizontal(act, target, direction, cv, hcfg, "right", t.right)
                ELSE resizeHintVertical(act, target, direction, cv, hcfg, "top", t.top)
                     \o resizeHintVertical(act, target, direction, cv, hcfg, "top", t.bottom)
                     \o resizeHintVertical(act, target, direction, cv, hcfg, "bottom", t.top)
                     \o resizeHintVertical(act, target, direction, cv, hcfg, "bottom", t.bottom)])

\* WithinLimit keeping every candidate, whatever the threshold
WithinLimit_any(candidates, limitDistance) == candidates

\* the candidates at most limitDistance away
WithinLimit(candidates, limitDistance) ==
    SelectSeq(candidates, LAMBDA c : c.distance <= limitDistance)

computeResizeHintTarget(act, oths, direction, cv, hcfg) ==
    LET hintDistance == hcfg.distance
        snapDistance == hcfg.snap.distance
        targets == hintTargets(oths, cv)
        horizontal == resizeHintCandidates(act, targets, direction, cv, hcfg,
                                           "horizontal")
        vertical == resizeHintCandidates(act, targets, direction, cv, hcfg,
                                         "vertical")
        guideHorizontal == FoldAxis(WithinLimit(horizontal, hintDistance))
        guideVertical == FoldAxis(WithinLimit(vertical, hintDistance))
        snapHorizontal == FoldAxis(WithinLimit(horizontal, snapDistance))
        snapVertical == FoldAxis(WithinLimit(vertical, snapDistance))
    IN [target |-> combineHintTargets(act, snapHorizontal, snapVertical, cv),
        guides |-> hintGuides(guideHorizontal, guideVertical)]

----------------------------------------------------------------------------
(* Inputs                                                                  *)

\* the longest sibling list handed to a resolver
MaxSiblings == 2

NoStyle == <<>>

Window(id, x, y, width, height, style) ==
    [id |-> id, x |-> x, y |-> y, width |-> width, height |-> height,
     zIndex |-> 0, windowStyle |-> style]

\* the windowStyle overrides: absent, or a limit on either side of the default
StyleSet ==
    {[k \in keys |-> limits[k]] :
        keys \in SUBSET {"minWidth", "maxWidth", "minHeight", "maxHeight"},
        limits \in {[minWidth |-> 100, maxWidth |-> 600,
                     minHeight |-> 100, maxHeight |-> 200],
                    [minWidth |-> 500, maxWidth |-> 200,
                     minHeight |-> 100, maxHeight |-> 200]}}

RectSet ==
    {Window("win", x, y, w, h, st) :
        x \in {-50, 0, 350, 700, 1100}, y \in {-10, 0, 700},
        w \in {-20, 100, 320, 400, 1200}, h \in {100, 300, 1200},
        st \in StyleSet}

CanvasSet ==
    {[width |-> 400, height |-> 400], [width |-> 1000, height |-> 1000],
     [width |-> 200, height |-> 100], [width |-> 0, height |-> 0]}

\* the canvases of the resolver frames: a roomy one, and a tight one whose
\* right and bottom edges lie close to edges of the siblings
FrameCanvas == [width |-> 1000, height |-> 800]
TightCanvas == [width |-> 736, height |-> 640]

ResizeDirections == {"n", "s", "e", "w", "ne", "nw", "se", "sw"}

InteractionSet ==
    {[type |-> "drag", direction |-> "none"]}
    \cup {[type |-> "resize", direction |-> d] : d \in ResizeDirections}

\* the proposed positions of the active window
ActiveXs == {48, 64, 80, 340, 680}
ActiveYs == {100, 160, 280, 372, 560}

ActiveWindow(x, y) == Window("a", x, y, 320, 240, NoStyle)

\* the rectangle of the active window when the interaction begins
StartWindow == ActiveWindow(80, 100)

\* the translations of the pointer during a resize
TranslationXs == {-48, -16, 0, 16, 304}
TranslationYs == {-48, -16, 0, 32, 272}

\* the siblings: two neighbours sharing the edge x = 400, and a stale copy
\* of the active window as a caller passing the whole window list supplies
SiblingPool ==
    {Window("b", 400, 100, 320, 240, NoStyle),
     Window("c", 96, 372, 320, 240, NoStyle),
     Window("a", 416, 132, 320, 240, NoStyle)}

SiblingLists ==
    {s \in UNION {[1..n -> SiblingPool] : n \in 0..MaxSiblings} :
        \A i, j \in 1..Len(s) : i # j => s[i] # s[j]}

\* the resolved configurations: the default snap distance with a guide
\* threshold below the hint snap threshold, and a tighter snap distance with
\* a guide threshold above the hint snap threshold
ConfigPairs ==
    {<<[distance |-> SNAP_DISTANCE, overlap |-> SNAP_OVERLAP],
       [enabled |-> TRUE, distance |-> 16,
        snap |-> [enabled |-> TRUE, distance |-> 32]]>>,
     <<[distance |-> 16, overlap |-> 0],
       [enabled |-> TRUE, distance |-> 32,
        snap |-> [enabled |-> TRUE, distance |-> 16]]>>}

\* what the shared snap target slot holds when the interaction starts: nothing,
\* or the target left by an interaction with window b
ForeignSticky ==
    [activeId |-> "b", targetIds |-> <<"c">>, edges |-> <<"left">>,
     window |-> Window("b", 96, 100, 320, 240, NoStyle), distance |-> 16]

NoHint == [target |-> Null, guides |-> <<>>]

----------------------------------------------------------------------------
(* SpecClamp: clampWindowToBounds applied to the rectangles of RectSet      *)

IdleSnapVars ==
    /\ interaction = Null /\ active = Null /\ others = <<>> /\ canvas = Null
    /\ config = Null /\ hintConfig = Null /\ stickyTo = Null
    /\ snapTarget = Null /\ hint = NoHint

\* the provider as constructed without props, and no gesture
IdleStoreVars ==
    /\ mode = "locked" /\ snapEnabled = TRUE /\ windows = <<>>
    /\ zCounter = 0 /\ activeId = NullId /\ lastAction = Null

IdleViewVars == gesture = Null /\ jsQueue = <<>> /\ released = Null

InitClamp ==
    /\ rect \in RectSet
    /\ rectCanvas \in CanvasSet \cup {Null}
    /\ clamped = Null
    /\ IdleSnapVars
    /\ IdleStoreVars
    /\ IdleViewVars

ClampRect ==
    /\ clamped = Null
    /\ clamped' = clampWindowToBounds(rect, rectCanvas)
    /\ UNCHANGED <<rect, rectCanvas>>
    /\ UNCHANGED <<snapVars, storeVars, viewVars>>

NextClamp == ClampRect

SpecClamp == InitClamp /\ [][NextClamp]_vars

----------------------------------------------------------------------------
(* Spec: the per-frame recompute of useSnapTarget and useHintGuides         *)

\* the state when an interaction begins: no frame computed yet, the shared
\* snap target slot empty or, for a drag, holding the target left by an
\* interaction with window b
Init ==
    /\ rect = Null /\ rectCanvas = Null /\ clamped = Null
    /\ interaction \in InteractionSet
    /\ active = StartWindow
    /\ others \in SiblingLists
    /\ canvas \in {Null, FrameCanvas, TightCanvas}
    /\ \E pair \in ConfigPairs : config = pair[1] /\ hintConfig = pair[2]
    /\ stickyTo = NotCalled
    /\ snapTarget \in (IF interaction.type = "drag" THEN {Null, ForeignSticky}
                       ELSE {Null})
    /\ hint = NoHint
    /\ mode = "unlocked" /\ snapEnabled = TRUE /\ windows = <<>>
    /\ zCounter = 0 /\ activeId = NullId /\ lastAction = Null
    /\ IdleViewVars

\* direction.includes(letter)
includes(direction, letter) ==
    CASE letter = "n" -> direction \in {"n", "ne", "nw"}
      [] letter = "s" -> direction \in {"s", "se", "sw"}
      [] letter = "e" -> direction \in {"e", "ne", "se"}
      [] letter = "w" -> direction \in {"w", "nw", "sw"}

\* the rectangle a resize gesture proposes for a translation of the pointer:
\* the moved edges follow the pointer, the size is held within the limits of
\* the window with the opposite edge fixed, and the result is clamped
resizeNext(baseWindow, start, direction, translationX, translationY, cv) ==
    LET minWidth == resolveMinWidth(baseWindow)
        minHeight == resolveMinHeight(baseWindow)
        maxWidth == resolveMaxWidth(baseWindow, cv)
        maxHeight == resolveMaxHeight(baseWindow, cv)
        width0 == IF includes(direction, "w") THEN start.width - translationX
                  ELSE IF includes(direction, "e")
                       THEN start.width + translationX
                  ELSE start.width
        x0 == IF includes(direction, "w") THEN start.x + translationX
              ELSE start.x
        height0 == IF includes(direction, "n") THEN start.height - translationY
                   ELSE IF includes(direction, "s")
                        THEN start.height + translationY
                   ELSE start.height
        y0 == IF includes(direction, "n") THEN start.y + translationY
              ELSE start.y
        width1 == IF includes(direction, "w") \/ includes(direction, "e")
                  THEN IF width0 < minWidth THEN minWidth
                       ELSE IF width0 > maxWidth THEN maxWidth
                       ELSE width0
                  ELSE width0
        x1 == IF includes(direction, "w")
              THEN IF width0 < minWidth THEN x0 - (minWidth - width0)
                   ELSE IF width0 > maxWidth THEN x0 + (width0 - maxWidth)
                   ELSE x0
              ELSE x0
        height1 == IF includes(direction, "n") \/ includes(direction, "s")
                   THEN IF height0 < minHeight THEN minHeight
                        ELSE IF height0 > maxHeight THEN maxHeight
                        ELSE height0
                   ELSE height0
        y1 == IF includes(direction, "n")
              THEN IF height0 < minHeight THEN y0 - (minHeight - height0)
                   ELSE IF height0 > maxHeight THEN y0 + (height0 - maxHeight)
                   ELSE y0
              ELSE y0
    IN clampWindowToBounds(
           [baseWindow EXCEPT !.x = x1, !.y = y1,
                              !.width = width1, !.height = height1], cv)

\* a drag frame: the rectangle follows the pointer and is clamped, the previous
\* snap target is handed over as stickyTo
DragFrame(x, y) ==
    /\ interaction.type = "drag"
    /\ LET next == clampWindowToBounds([active EXCEPT !.x = x, !.y = y], canvas)
       IN /\ active' = next
          /\ stickyTo' = snapTarget
          /\ snapTarget' = computeDragSnapTarget(next, others, canvas,
                                                 snapTarget, config)
          /\ hint' = computeDragHintTarget(next, others, canvas, hintConfig)
    /\ UNCHANGED <<interaction, others, canvas, config, hintConfig>>
    /\ UNCHANGED <<clampVars, storeVars, viewVars>>

\* a resize frame: the moved edges follow the pointer, no sticky target is
\* handed over
ResizeFrame(translationX, translationY) ==
    /\ interaction.type = "resize"
    /\ LET next == resizeNext(active, StartWindow, interaction.direction,
                              translationX, translationY, canvas)
       IN /\ active' = next
          /\ stickyTo' = Null
          /\ snapTarget' = computeResizeSnapTarget(next, others,
                               interaction.direction, canvas, config)
          /\ hint' = computeResizeHintTarget(next, others,
                         interaction.direction, canvas, hintConfig)
    /\ UNCHANGED <<interaction, others, canvas, config, hintConfig>>
    /\ UNCHANGED <<clampVars, storeVars, viewVars>>

\* the pointer of a drag moves along one axis per frame
Moves == {<<x, active.y>> : x \in ActiveXs} \cup {<<active.x, y>> : y \in ActiveYs}

\* the translations of a resize: none on an axis the direction leaves alone
Translations ==
    {t \in TranslationXs \X TranslationYs :
        /\ (t[1] # 0 => includes(interaction.direction, "e")
                        \/ includes(interaction.direction, "w"))
        /\ (t[2] # 0 => includes(interaction.direction, "n")
                        \/ includes(interaction.direction, "s"))}

Next ==
    \/ \E m \in Moves : DragFrame(m[1], m[2])
    \/ \E t \in Translations : ResizeFrame(t[1], t[2])

Spec == Init /\ [][Next]_vars

----------------------------------------------------------------------------
(* Bounds Clamper properties (SpecClamp)                                   *)

ClampIdempotent ==
    clamped # Null => clampWindowToBounds(clamped, rectCanvas) = clamped

\* C2 witness: a rectangle that the first clamp changed in position and size
ClampIdempotentWitness ==
    /\ clamped # Null /\ rectCanvas # Null
    /\ clamped.x # rect.x /\ clamped.width # rect.width
    /\ clamped.height # rect.height

\* the canvas, if known, is at least as large as the resolved minimums
CanvasFitsMinimums ==
    rectCanvas # Null =>
        /\ rectCanvas.width >= resolveMinWidth(rect)
        /\ rectCanvas.height >= resolveMinHeight(rect)

\* the per-window maximums, if set, are at least the resolved minimums
MaximumsFitMinimums ==
    /\ resolveMaxWidth(rect, Null) >= resolveMinWidth(rect)
    /\ resolveMaxHeight(rect, Null) >= resolveMinHeight(rect)

MinimumSizeKept ==
    /\ clamped.width >= resolveMinWidth(rect)
    /\ clamped.height >= resolveMinHeight(rect)

\* C3 as stated: the clamped size is at least the resolved minimum size
\* whenever the canvas, if known, is at least as large as the minimums
ClampMinimumSizeAsStated ==
    (clamped # Null /\ CanvasFitsMinimums) => MinimumSizeKept

\* C3 amended: the clamped size is at least the resolved minimum size whenever
\* the canvas, if known, and the per-window maxWidth / maxHeight, if set, are
\* at least as large as the minimums
ClampMinimumSize ==
    (clamped # Null /\ CanvasFitsMinimums /\ MaximumsFitMinimums)
        => MinimumSizeKept

\* C3 witness: a rectangle smaller than its minimums was enlarged to them
ClampMinimumSizeWitness ==
    /\ clamped # Null /\ rectCanvas # Null
    /\ CanvasFitsMinimums /\ MaximumsFitMinimums
    /\ rect.width < resolveMinWidth(rect)
    /\ rect.height < resolveMinHeight(rect)
    /\ clamped.width = resolveMinWidth(rect)
    /\ clamped.height = resolveMinHeight(rect)

----------------------------------------------------------------------------
(* Snap Resolver properties (Spec)                                         *)

\* a frame of the interaction has been computed
FrameDone == stickyTo # NotCalled

Dragging == FrameDone /\ interaction.type = "drag"
Resizing == FrameDone /\ interaction.type = "resize"

\* the coordinate of an edge of a window
EdgeAt(window, edge) ==
    CASE edge = "left" -> window.x
      [] edge = "right" -> window.x + window.width
      [] edge = "top" -> window.y
      [] edge = "bottom" -> window.y + window.height

\* every edge listed in stickyTo.edges of the active rectangle is within
\* config.distance of the same edge of stickyTo.window
StickyEdgesInRange ==
    \A e \in SeqToSet(stickyTo.edges) :
        /\ e \in {"left", "right", "top", "bottom"}
        /\ Abs(EdgeAt(active, e) - EdgeAt(stickyTo.window, e)) <= config.distance

\* the result of this frame's call had no sticky target been handed over
FreshTarget == computeDragSnapTarget(active, others, canvas, Null, config)

\* C4 as stated: a sticky target of the active window whose edges are all
\* still in range is returned itself, whatever the sibling list is
StickyRetainedAsStated ==
    (Dragging /\ stickyTo # Null /\ stickyTo.activeId = active.id
       /\ StickyEdgesInRange)
        => snapTarget = stickyTo

\* C4 amended: a sticky target of the active window whose edges are all still
\* in range is returned itself when the siblings give no fresh candidate
StickyRetained ==
    (Dragging /\ stickyTo # Null /\ stickyTo.activeId = active.id
       /\ StickyEdgesInRange /\ FreshTarget = Null)
        => snapTarget = stickyTo

\* C4 witness: the active window has moved off the sticky rectangle, no
\* sibling gives a candidate, and the sticky target of the previous frame is
\* returned
StickyRetainedWitness ==
    /\ Dragging /\ stickyTo # Null /\ stickyTo.activeId = active.id
    /\ others # <<>>
    /\ FreshTarget = Null
    /\ active.y # stickyTo.window.y
    /\ snapTarget = stickyTo

\* C5: stickyTo is returned only when no fresh candidate was found, it
\* belongs to the active window and all its edges are in range; otherwise
\* the fresh result is returned, and never a target of another window
StickyOnlyWhenValid ==
    Dragging =>
        /\ ~(/\ FreshTarget = Null
             /\ stickyTo # Null
             /\ stickyTo.activeId = active.id
             /\ StickyEdgesInRange)
              => snapTarget = FreshTarget
        /\ snapTarget # Null => snapTarget.activeId = active.id

\* C5 witness: a sticky target of another window, with its edge in range of
\* the active window and no fresh candidate, was not returned
StickyOnlyWhenValidWitness ==
    /\ Dragging /\ stickyTo # Null /\ stickyTo.activeId # active.id
    /\ StickyEdgesInRange
    /\ FreshTarget = Null
    /\ snapTarget = Null

\* the length shared by two intervals (negative when they are apart)
IntervalOverlap(startA, endA, startB, endB) ==
    (IF endA <= endB THEN endA ELSE endB)
    - (IF startA >= startB THEN startA ELSE startB)

\* the distance between two intervals (0 when they touch or intersect)
IntervalGap(startA, endA, startB, endB) ==
    IF startB > endA THEN startB - endA
    ELSE IF startA > endB THEN startA - endB
    ELSE 0

\* the cross-axis gate for candidates of the given axis edges (first, last):
\* the extents of the two windows between the edges of the other axis overlap
\* by more than config.overlap or are at most config.distance apart
PassesGate(o, first, last) ==
    \/ IntervalOverlap(EdgeAt(active, first), EdgeAt(active, last),
                       EdgeAt(o, first), EdgeAt(o, last)) > config.overlap
    \/ IntervalGap(EdgeAt(active, first), EdgeAt(active, last),
                   EdgeAt(o, first), EdgeAt(o, last)) <= config.distance

\* some edge of the active window among activeEdges is within config.distance
\* of one of the two edges of o on the same axis
EdgeInRange(o, activeEdges, axisEdges) ==
    \E ea \in activeEdges \cap axisEdges, eo \in axisEdges :
        Abs(EdgeAt(active, ea) - EdgeAt(o, eo)) <= config.distance

\* some sibling other than the active window qualifies on an axis
SiblingQualifies(activeEdges) ==
    \E i \in 1..Len(others) :
        /\ others[i].id # active.id
        /\ \/ /\ PassesGate(others[i], "top", "bottom")
              /\ EdgeInRange(others[i], activeEdges, {"left", "right"})
           \/ /\ PassesGate(others[i], "left", "right")
              /\ EdgeInRange(others[i], activeEdges, {"top", "bottom"})

\* the edges a resize direction moves
MovedEdges(direction) ==
    CASE direction = "n" -> {"top"}
      [] direction = "s" -> {"bottom"}
      [] direction = "e" -> {"right"}
      [] direction = "w" -> {"left"}
      [] direction = "ne" -> {"top", "right"}
      [] direction = "nw" -> {"top", "left"}
      [] direction = "se" -> {"bottom", "right"}
      [] direction = "sw" -> {"bottom", "left"}

\* C6: without a sticky target the drag resolver returns a target iff some
\* sibling other than the active window passes the cross-axis gate on an axis
\* and has an edge-to-edge distance on that axis within config.distance; the
\* resize resolver likewise, for the edges moved by the direction
SnapTargetIffSiblingQualifies ==
    /\ Dragging =>
          (FreshTarget # Null
             <=> SiblingQualifies({"left", "right", "top", "bottom"}))
    /\ Resizing =>
          (snapTarget # Null
             <=> SiblingQualifies(MovedEdges(interaction.direction)))

\* C6 witness: a sibling edge is within the distance of an active edge, the
\* cross-axis gate rejects it, and the drag resolver returns null
SnapTargetIffSiblingQualifiesWitness ==
    /\ Dragging /\ stickyTo = Null /\ snapTarget = Null
    /\ \E i \in 1..Len(others) :
          /\ others[i].id # active.id
          /\ EdgeInRange(others[i], {"left", "right"}, {"left", "right"})
          /\ ~PassesGate(others[i], "top", "bottom")

\* the candidate lists of the current frame and the target selected from them
FrameCandidates ==
    IF interaction.type = "drag"
    THEN dragCandidates(active, others, canvas, config)
    ELSE resizeCandidates(active, others, interaction.direction, canvas, config)

SelectedTarget ==
    IF interaction.type = "drag" THEN FreshTarget ELSE snapTarget

\* c is an element of candidates and no element is closer
IsClosest(c, candidates) ==
    /\ c \in SeqToSet(candidates)
    /\ \A d \in SeqToSet(candidates) : c.distance <= d.distance

\* s lists exactly the elements of the set, each once
ListsOnce(s, set) == SeqToSet(s) = set /\ Len(s) = Cardinality(set)

\* target is the merge of the horizontal winner h and the vertical winner v
IsMergeOf(target, h, v) ==
    /\ ListsOnce(target.edges, SeqToSet(h.edges) \cup SeqToSet(v.edges))
    /\ ListsOnce(target.targetIds,
                 SeqToSet(h.targetIds) \cup SeqToSet(v.targetIds))
    /\ target.distance = h.distance + v.distance
    /\ target.window =
          clampWindowToBounds(
              [active EXCEPT !.x = h.window.x, !.width = h.window.width,
                             !.y = v.window.y, !.height = v.window.height],
              canvas)

\* C7: the snap resolvers pick the candidate of minimal distance on each axis;
\* with a winner on both axes the result merges them (edges united, targetIds
\* united without duplicates, distances summed, window the clamp of x, width
\* of the horizontal and y, height of the vertical winner); with candidates on
\* one axis only the result is that winner unchanged; with none it is null
CandidateSelection ==
    LET horizontal == FrameCandidates.horizontal
        vertical == FrameCandidates.vertical
    IN FrameDone =>
       /\ (horizontal # <<>> /\ vertical # <<>>) =>
             /\ SelectedTarget # Null
             /\ \E h \in SeqToSet(horizontal), v \in SeqToSet(vertical) :
                   /\ IsClosest(h, horizontal)
                   /\ IsClosest(v, vertical)
                   /\ IsMergeOf(SelectedTarget, h, v)
       /\ (horizontal # <<>> /\ vertical = <<>>) =>
             IsClosest(SelectedTarget, horizontal)
       /\ (horizontal = <<>> /\ vertical # <<>>) =>
             IsClosest(SelectedTarget, vertical)
       /\ (horizontal = <<>> /\ vertical = <<>>) => SelectedTarget = Null

\* C7 witness: an axis with candidates of different distances, a winner on the
\* other axis too, and a merged target returned
CandidateSelectionWitness ==
    /\ stickyTo = Null /\ snapTarget # Null
    /\ Len(snapTarget.edges) = 2
    /\ \E c, d \in SeqToSet(FrameCandidates.horizontal) :
          c.distance < d.distance
    /\ FrameCandidates.vertical # <<>>

AllEdges == {"left", "right", "top", "bottom"}

\* C8: during a resize the snap target, the hint target and the guides only
\* involve the edges moved by the direction (n: top, s: bottom, e: right,
\* w: left, ne: top and right, nw: top and left, se: bottom and right,
\* sw: bottom and left)
ResizeTouchesMovedEdgesOnly ==
    Resizing =>
        LET moved == MovedEdges(interaction.direction)
        IN /\ snapTarget # Null => SeqToSet(snapTarget.edges) \subseteq moved
           /\ hint.target # Null => SeqToSet(hint.target.edges) \subseteq moved
           /\ \A i \in 1..Len(hint.guides) : hint.guides[i].edge \in moved

\* C8 witness: a resize frame with a snap target, a hint target and a guide
\* while an edge the direction does not move is in range of a sibling edge
ResizeTouchesMovedEdgesOnlyWitness ==
    /\ Resizing /\ snapTarget # Null /\ hint.target # Null
    /\ hint.guides # <<>>
    /\ \E i \in 1..Len(others) :
       \E e \in AllEdges \ MovedEdges(interaction.direction) :
          /\ others[i].id # active.id
          /\ \/ /\ e \in {"left", "right"}
                /\ PassesGate(others[i], "top", "bottom")
                /\ EdgeInRange(others[i], {e}, {"left", "right"})
             \/ /\ e \in {"top", "bottom"}
                /\ PassesGate(others[i], "left", "right")
                /\ EdgeInRange(others[i], {e}, {"top", "bottom"})

\* the sibling list without the entries that carry the active window's id
WithoutSelf == SelectSeq(others, LAMBDA o : o.id # active.id)

\* C9: each of the four resolvers returns for a sibling list holding an entry
\* with the active window's id what it returns for the list without that
\* entry, and the active id is in no targetIds of a freshly computed target
SelfFiltered ==
    /\ Dragging =>
          /\ snapTarget = computeDragSnapTarget(active, WithoutSelf, canvas,
                                                stickyTo, config)
          /\ FreshTarget = computeDragSnapTarget(active, WithoutSelf, canvas,
                                                 Null, config)
          /\ hint = computeDragHintTarget(active, WithoutSelf, canvas,
                                          hintConfig)
    /\ Resizing =>
          /\ snapTarget = computeResizeSnapTarget(active, WithoutSelf,
                              interaction.direction, canvas, config)
          /\ hint = computeResizeHintTarget(active, WithoutSelf,
                        interaction.direction, canvas, hintConfig)
    /\ (FrameDone /\ SelectedTarget # Null) =>
          active.id \notin SeqToSet(SelectedTarget.targetIds)
    /\ hint.target # Null => active.id \notin SeqToSet(hint.target.targetIds)
    /\ \A i \in 1..Len(hint.guides) :
          active.id \notin SeqToSet(hint.guides[i].targetIds)

\* C9 witness: the list holds only an entry with the active window's id, that
\* entry passes the gate with an edge in range, and nothing is returned
SelfFilteredWitness ==
    /\ Dragging /\ stickyTo = Null /\ Len(others) = 1
    /\ others[1].id = active.id
    /\ PassesGate(others[1], "top", "bottom")
    /\ EdgeInRange(others[1], AllEdges, {"left", "right"})
    /\ snapTarget = Null /\ hint.target = Null

HorizontalNames == {"left", "right", "centerX"}
VerticalNames == {"top", "bottom", "centerY"}

\* the coordinate of an edge or centre of a window
PositionOf(window, name) ==
    CASE name = "left" -> window.x
      [] name = "right" -> window.x + window.width
      [] name = "centerX" -> window.x + window.width \div 2
      [] name = "top" -> window.y
      [] name = "bottom" -> window.y + window.height
      [] name = "centerY" -> window.y + window.height \div 2

\* what an edge or centre of the active window aligns with: an edge with
\* either edge of the same axis, a centre with the centre
AlignsWith(name) ==
    IF name \in {"left", "right"} THEN {"left", "right"}
    ELSE IF name \in {"top", "bottom"} THEN {"top", "bottom"}
    ELSE {name}

\* the edges and centres of the active window the interaction aligns
ConsideredNames ==
    IF interaction.type = "drag" THEN HorizontalNames \cup VerticalNames
    ELSE MovedEdges(interaction.direction)

MinOf(set) == CHOOSE m \in set : \A n \in set : m <= n

\* the smallest alignment distance of the given names to a target
Closest(target, names) ==
    MinOf({POSITIVE_INFINITY} \cup
          UNION {{Abs(PositionOf(active, n) - PositionOf(target, m)) :
                     m \in AlignsWith(n)} : n \in names})

ClosestSibling(names) ==
    MinOf({POSITIVE_INFINITY} \cup
          {Closest(others[i], names) :
              i \in {j \in 1..Len(others) : others[j].id # active.id}})

CanvasRect == Window(CANVAS_ID, 0, 0, canvas.width, canvas.height, NoStyle)

NamesCanvas(targetIds) == CANVAS_ID \in SeqToSet(targetIds)

TargetNamesCanvas == hint.target # Null /\ NamesCanvas(hint.target.targetIds)

GuideNamesCanvas(orientation) ==
    \E i \in 1..Len(hint.guides) :
        /\ hint.guides[i].orientation = orientation
        /\ hint.guides[i].targetIds = <<CANVAS_ID>>

\* without a canvas no guide and no hint target names the canvas
NoCanvasNoCanvasTarget ==
    canvas = Null =>
        /\ ~TargetNamesCanvas
        /\ \A i \in 1..Len(hint.guides) : ~NamesCanvas(hint.guides[i].targetIds)

\* the snap resolvers never name the canvas, and the canvas changes neither
\* whether they return a target nor its targetIds, edges and distance
SnapIgnoresCanvas ==
    LET without == IF interaction.type = "drag"
                   THEN computeDragSnapTarget(active, others, Null, Null, config)
                   ELSE computeResizeSnapTarget(active, others,
                            interaction.direction, Null, config)
    IN FrameDone =>
       /\ snapTarget # Null => ~NamesCanvas(snapTarget.targetIds)
       /\ (SelectedTarget = Null) <=> (without = Null)
       /\ SelectedTarget # Null =>
             /\ ~NamesCanvas(SelectedTarget.targetIds)
             /\ SelectedTarget.targetIds = without.targetIds
             /\ SelectedTarget.edges = without.edges
             /\ SelectedTarget.distance = without.distance

\* C10 as stated: with a known canvas, an active edge (or, when dragging,
\* centre) within the hint distance of a canvas edge (or centre) yields a guide
\* or a hint target that names the canvas; without a canvas nothing names it;
\* the snap resolvers never align to the canvas
CanvasAsymmetryAsStated ==
    /\ (FrameDone /\ canvas # Null) =>
          \A n \in ConsideredNames :
              (\E m \in AlignsWith(n) :
                  Abs(PositionOf(active, n) - PositionOf(CanvasRect, m))
                      <= hintConfig.distance)
              => \/ TargetNamesCanvas
                 \/ \E i \in 1..Len(hint.guides) :
                        NamesCanvas(hint.guides[i].targetIds)
    /\ NoCanvasNoCanvasTarget
    /\ SnapIgnoresCanvas

\* on the axis of the names: the canvas is within the limit and closer than
\* every sibling / a sibling is within the limit and at least as close
CanvasWins(names, limit) ==
    /\ Closest(CanvasRect, names) <= limit
    /\ Closest(CanvasRect, names) < ClosestSibling(names)

SiblingWins(names, limit) ==
    /\ ClosestSibling(names) <= limit
    /\ ClosestSibling(names) <= Closest(CanvasRect, names)

CanvasOnAxis(axisNames, orientation) ==
    LET names == ConsideredNames \cap axisNames
    IN /\ CanvasWins(names, hintConfig.distance) => GuideNamesCanvas(orientation)
       /\ SiblingWins(names, hintConfig.distance) =>
             ~GuideNamesCanvas(orientation)
       /\ CanvasWins(names, hintConfig.snap.distance) => TargetNamesCanvas

\* C10: with a known canvas the hint resolvers treat the canvas rectangle as
\* one more target after the siblings: on each axis the guide names the canvas
\* when an aligned edge (or, when dragging, centre) is within hint.distance of
\* the canvas edge (or centre) and closer to it than to any sibling, the hint
\* target names it likewise within hint.snap.distance, and a sibling at least
\* as close keeps the guide; without a canvas nothing names it; the snap
\* resolvers never align to the canvas
CanvasAsymmetry ==
    /\ (FrameDone /\ canvas # Null) =>
          /\ CanvasOnAxis(HorizontalNames, "vertical")
          /\ CanvasOnAxis(VerticalNames, "horizontal")
    /\ NoCanvasNoCanvasTarget
    /\ SnapIgnoresCanvas

\* C10 witness: a sibling is within the guide distance on the vertical axis,
\* the canvas is closer, and the guide and the hint target name the canvas
\* while the snap target does not
CanvasAsymmetryWitness ==
    /\ canvas # Null /\ others # <<>>
    /\ ClosestSibling(ConsideredNames \cap VerticalNames) <= hintConfig.distance
    /\ CanvasWins(ConsideredNames \cap VerticalNames, hintConfig.distance)
    /\ GuideNamesCanvas("horizontal")
    /\ TargetNamesCanvas
    /\ snapTarget # Null

\* the targets the hint resolvers align with: the siblings other than the
\* active window and, when the canvas is known, the canvas rectangle
AlignmentTargets ==
    {others[i] : i \in {j \in 1..Len(others) : others[j].id # active.id}}
    \cup (IF canvas # Null THEN {CanvasRect} ELSE {})

\* the alignments of the considered names of an axis at most limit away
Alignments(axisNames, limit) ==
    {c \in UNION {{[id |-> t.id, name |-> n,
                    position |-> PositionOf(t, m),
                    distance |-> Abs(PositionOf(active, n) - PositionOf(t, m))] :
                      t \in AlignmentTargets, m \in AlignsWith(n)} :
                  n \in ConsideredNames \cap axisNames} :
        c.distance <= limit}

GuidesOf(orientation) ==
    {i \in 1..Len(hint.guides) : hint.guides[i].orientation = orientation}

\* every guide of the orientation shows an alignment of the axis that is
\* within hint.distance and as close as any other
GuideIsClosest(axisNames, orientation) ==
    \A i \in GuidesOf(orientation) :
        \E c \in Alignments(axisNames, hintConfig.distance) :
            /\ \A d \in Alignments(axisNames, hintConfig.distance) :
                  c.distance <= d.distance
            /\ hint.guides[i].targetIds = <<c.id>>
            /\ hint.guides[i].position = c.position
            /\ hint.guides[i].edge = c.name

\* C11: the hint resolvers return at most two guides, at most one vertical
\* and at most one horizontal, each the guide of a minimum-distance candidate
\* within hintConfig.distance on its axis across all targets
GuidesOnePerAxis ==
    FrameDone =>
        /\ Len(hint.guides) <= 2
        /\ Cardinality(GuidesOf("vertical")) <= 1
        /\ Cardinality(GuidesOf("horizontal")) <= 1
        /\ \A i \in 1..Len(hint.guides) :
              hint.guides[i].orientation \in {"vertical", "horizontal"}
        /\ GuideIsClosest(HorizontalNames, "vertical")
        /\ GuideIsClosest(VerticalNames, "horizontal")

\* C11 witness: two guides are returned while an axis has alignments of
\* different distances within the guide threshold
GuidesOnePerAxisWitness ==
    /\ FrameDone /\ Len(hint.guides) = 2
    /\ \E c, d \in Alignments(HorizontalNames, hintConfig.distance) :
          c.distance < d.distance

\* the hint target carries an edge or centre of the axis
TargetHasEdgeOf(axisNames) ==
    /\ hint.target # Null
    /\ \E i \in 1..Len(hint.target.edges) : hint.target.edges[i] \in axisNames

\* C12: the two hint thresholds are applied independently per axis: a guide
\* exists on an axis iff some target edge or centre is within
\* hintConfig.distance of the corresponding active edge or centre, and the
\* hint target includes an edge of an axis iff some target edge or centre is
\* within hintConfig.snap.distance, whatever the other threshold is
HintThresholdsIndependent ==
    FrameDone =>
        /\ GuidesOf("vertical") # {}
             <=> Alignments(HorizontalNames, hintConfig.distance) # {}
        /\ GuidesOf("horizontal") # {}
             <=> Alignments(VerticalNames, hintConfig.distance) # {}
        /\ TargetHasEdgeOf(HorizontalNames)
             <=> Alignments(HorizontalNames, hintConfig.snap.distance) # {}
        /\ TargetHasEdgeOf(VerticalNames)
             <=> Alignments(VerticalNames, hintConfig.snap.distance) # {}

\* C12 witness: a resize frame shows a guide on an axis on which the hint
\* target has no edge, the alignment being within hint.distance only
HintThresholdsIndependentWitness ==
    /\ Resizing
    /\ hintConfig.snap.distance < hintConfig.distance
    /\ \/ GuidesOf("vertical") # {} /\ ~TargetHasEdgeOf(HorizontalNames)
       \/ GuidesOf("horizontal") # {} /\ ~TargetHasEdgeOf(VerticalNames)

\* a drag frame yields a hint target on an axis that shows no guide, the
\* alignment being within hint.snap.distance only
HintTargetWithoutGuide ==
    /\ Dragging
    /\ hintConfig.distance < hintConfig.snap.distance
    /\ \/ GuidesOf("vertical") = {} /\ TargetHasEdgeOf(HorizontalNames)
       \/ GuidesOf("horizontal") = {} /\ TargetHasEdgeOf(VerticalNames)

----------------------------------------------------------------------------
(* SpecStore: the actions of WindowKitProvider                              *)

\* the highest zIndex the provider hands out in the model
MaxZCounter == 4

\* windows.reduce((max, win) => Math.max(max, win.zIndex), 0)
RECURSIVE maxZIndex(_)
maxZIndex(wins) ==
    IF wins = <<>> THEN 0
    ELSE Max2(maxZIndex(SubSeq(wins, 1, Len(wins) - 1)), wins[Len(wins)].zIndex)

hasWindow(wins, id) == \E i \in 1..Len(wins) : wins[i].id = id

selectNextActiveId(current, wins) ==
    IF current = NullId THEN NullId
    ELSE IF hasWindow(wins, current) THEN current
    ELSE IF wins # <<>> THEN wins[1].id
    ELSE NullId

\* setWindows returning the current state: same list, same counter
setWindows_keepsCounter(nextWindows) ==
    /\ windows' = nextWindows
    /\ activeId' = selectNextActiveId(activeId, nextWindows)
    /\ UNCHANGED zCounter

\* setWindows; handed the very list it holds (and the counter unchanged) it
\* returns the current state, which differs in activeId only
setWindows(nextWindows) ==
    /\ windows' = nextWindows
    /\ zCounter' = maxZIndex(nextWindows)
    /\ \/ activeId' = selectNextActiveId(activeId, nextWindows)
       \/ /\ nextWindows = windows /\ zCounter = maxZIndex(nextWindows)
          /\ activeId' = activeId

\* focusWindow handing out the current counter instead of the next one
focusWindow_sameZ(id) ==
    /\ zCounter' = zCounter
    /\ windows' = [i \in 1..Len(windows) |->
                     IF windows[i].id = id
                     THEN [windows[i] EXCEPT !.zIndex = zCounter]
                     ELSE windows[i]]
    /\ activeId' = id

focusWindow(id) ==
    /\ zCounter' = zCounter + 1
    /\ windows' = [i \in 1..Len(windows) |->
                     IF windows[i].id = id
                     THEN [windows[i] EXCEPT !.zIndex = zCounter + 1]
                     ELSE windows[i]]
    /\ activeId' = id

moveWindow(id, x, y) ==
    windows' = [i \in 1..Len(windows) |->
                  IF windows[i].id = id
                  THEN [windows[i] EXCEPT !.x = x, !.y = y]
                  ELSE windows[i]]

\* resizeWindow with all four of x, y, width, height supplied
resizeWindow(id, windowData) ==
    windows' = [i \in 1..Len(windows) |->
                  IF windows[i].id = id
                  THEN [windows[i] EXCEPT !.x = windowData.x,
                                          !.y = windowData.y,
                                          !.width = windowData.width,
                                          !.height = windowData.height]
                  ELSE windows[i]]

setMode(nextMode) == mode' = nextMode

toggleMode == mode' = IF mode = "unlocked" THEN "locked" ELSE "unlocked"

setSnapEnabled(nextSnapEnabled) == snapEnabled' = nextSnapEnabled

toggleSnap == snapEnabled' = ~snapEnabled

\* the windows an application hands to the provider or to setWindows
StoreWindow(id, zIndex) ==
    [Window(id, IF id = "a" THEN 80 ELSE 400, 100, 320, 240, NoStyle)
        EXCEPT !.zIndex = zIndex]

StoreWindowLists ==
    {<<>>}
    \cup {<<StoreWindow(id, z)>> : id \in {"a", "b"}, z \in {0, 3}}
    \cup {<<StoreWindow("a", z1), StoreWindow("b", z2)>> :
            z1 \in {1, 3}, z2 \in {0, 2}}

\* the ids handed to the provider actions: the windows and an unknown id
StoreIds == {"a", "b", "z"}

StoreRects ==
    {[x |-> 80, y |-> 100, width |-> 320, height |-> 240],
     [x |-> 64, y |-> 100, width |-> 336, height |-> 240]}

Did(name, id) == lastAction' = [name |-> name, id |-> id]

InitStore ==
    /\ rect = Null /\ rectCanvas = Null /\ clamped = Null
    /\ IdleSnapVars
    /\ IdleViewVars
    /\ windows \in StoreWindowLists
    /\ mode \in {"locked", "unlocked"}
    /\ snapEnabled \in BOOLEAN
    /\ zCounter = maxZIndex(windows)
    /\ activeId = NullId
    /\ lastAction = Null

SetWindows ==
    \E nextWindows \in StoreWindowLists :
        /\ setWindows(nextWindows)
        /\ Did("setWindows", NullId)
        /\ UNCHANGED <<mode, snapEnabled>>

FocusWindow ==
    \E id \in StoreIds :
        /\ zCounter < MaxZCounter
        /\ focusWindow(id)
        /\ Did("focusWindow", id)
        /\ UNCHANGED <<mode, snapEnabled>>

MoveWindow ==
    \E id \in StoreIds, r \in StoreRects :
        /\ moveWindow(id, r.x, r.y)
        /\ Did("moveWindow", id)
        /\ UNCHANGED <<mode, snapEnabled, zCounter, activeId>>

ResizeWindow ==
    \E id \in StoreIds, r \in StoreRects :
        /\ resizeWindow(id, r)
        /\ Did("resizeWindow", id)
        /\ UNCHANGED <<mode, snapEnabled, zCounter, activeId>>

SetMode ==
    \E nextMode \in {"locked", "unlocked"} :
        /\ setMode(nextMode)
        /\ Did("setMode", NullId)
        /\ UNCHANGED <<snapEnabled, windows, zCounter, activeId>>

ToggleMode ==
    /\ toggleMode
    /\ Did("toggleMode", NullId)
    /\ UNCHANGED <<snapEnabled, windows, zCounter, activeId>>

SetSnapEnabled ==
    \E nextSnapEnabled \in BOOLEAN :
        /\ setSnapEnabled(nextSnapEnabled)
        /\ Did("setSnapEnabled", NullId)
        /\ UNCHANGED <<mode, windows, zCounter, activeId>>

ToggleSnap ==
    /\ toggleSnap
    /\ Did("toggleSnap", NullId)
    /\ UNCHANGED <<mode, windows, zCounter, activeId>>

NextStore ==
    /\ \/ SetWindows
       \/ FocusWindow
       \/ MoveWindow
       \/ ResizeWindow
       \/ SetMode
       \/ ToggleMode
       \/ SetSnapEnabled
       \/ ToggleSnap
    /\ UNCHANGED <<clampVars, snapVars, viewVars>>

SpecStore == InitStore /\ [][NextStore]_vars

\* C16: after any sequence of provider actions zCounter is at least the
\* zIndex of every window of the list, and right after focusWindow(id) for an
\* id of the list that window's zIndex is strictly greater than every other
\* window's and activeId is id
BringToFront ==
    /\ \A i \in 1..Len(windows) : zCounter >= windows[i].zIndex
    /\ (lastAction # Null /\ lastAction.name = "focusWindow"
            /\ hasWindow(windows, lastAction.id))
        => /\ activeId = lastAction.id
           /\ \A i, j \in 1..Len(windows) :
                 (windows[i].id = lastAction.id /\ windows[j].id # lastAction.id)
                     => windows[i].zIndex > windows[j].zIndex

\* C16 witness: focusWindow has just raised a window of a two-window list
\* whose other window held the highest zIndex before
BringToFrontWitness ==
    /\ lastAction # Null /\ lastAction.name = "focusWindow"
    /\ Len(windows) = 2
    /\ hasWindow(windows, lastAction.id)
    /\ \E i \in 1..2 : windows[i].id # lastAction.id /\ windows[i].zIndex = 3

----------------------------------------------------------------------------
(* SpecView: the pan gestures of a window on the UI thread, the calls they  *)
(* hand to the JS thread with runOnJS, and the effects of WindowView        *)

\* the longest queue of runOnJS calls not yet run
MaxPending == 5

\* resolveSnapConfig(config.snap, snapEnabled): snapping is on when the
\* provider has it on (config.snap.enabled is left to its default)
resolveSnapConfig(cfg, enabled) ==
    [enabled |-> enabled, distance |-> cfg.distance, overlap |-> cfg.overlap]

\* resolvedHintConfig: hint snapping needs snapping switched on
resolveHintConfig(hcfg, enabled) ==
    [hcfg EXCEPT !.snap.enabled = hcfg.snap.enabled /\ enabled]

\* resolvedHintConfig.snap.enabled && resolvedHintConfig.enabled && snapEnabled
hintSnapEnabled ==
    /\ resolveHintConfig(hintConfig, snapEnabled).snap.enabled
    /\ resolveHintConfig(hintConfig, snapEnabled).enabled
    /\ snapEnabled

\* hintTarget = hintSnapEnabled ? result.target : null; hintGuides =
\* result.guides; return { snapTarget, hintTarget, hintGuides }
workletTargets(snap, hintSnap, result) ==
    [snapTarget |-> snap,
     hintTarget |-> IF hintSnap THEN result.target ELSE Null,
     hintGuides |-> result.guides]

\* computeWorkletTargets
computeWorkletTargets(activeWindow, type, direction, wins, cv, snapConfig, hcfg, sticky) ==
    LET oths == SelectSeq(wins, LAMBDA win : win.id # activeWindow.id)
    IN workletTargets(
           IF ~snapConfig.enabled THEN Null
           ELSE IF type = "drag"
           THEN computeDragSnapTarget(activeWindow, oths, cv, sticky, snapConfig)
           ELSE computeResizeSnapTarget(activeWindow, oths, direction, cv,
                                        snapConfig),
           hcfg.snap.enabled /\ snapConfig.enabled,
           IF ~hcfg.enabled THEN NoHint
           ELSE IF type = "drag"
           THEN computeDragHintTarget(activeWindow, oths, cv, hcfg)
           ELSE computeResizeHintTarget(activeWindow, oths, direction, cv, hcfg))

\* workletContext.windows.value
sharedWindows == <<active>> \o others

\* findWindowById for an id of the list
findWindowById(wins, id) ==
    wins[CHOOSE i \in 1..Len(wins) : wins[i].id = id]

withRect(win, next) ==
    [win EXCEPT !.x = next.x, !.y = next.y,
                !.width = next.width, !.height = next.height]

\* updateSharedWindow, together with xSv, ySv, widthSv, heightSv
updateSharedWindow(id, next) ==
    /\ active' = IF active.id = id THEN withRect(active, next) ELSE active
    /\ others' = [i \in 1..Len(others) |->
                    IF others[i].id = id THEN withRect(others[i], next)
                    ELSE others[i]]

\* the effects that follow a change of the provider's window list: the
\* shared window list and the windows' shared rectangles take the provider's
\* values; the window under the gesture keeps the rectangle of its frames
syncShared ==
    /\ active' = IF gesture' # Null /\ gesture'.id = active.id THEN active
                 ELSE findWindowById(windows', active.id)
    /\ others' = [i \in 1..Len(others) |->
                    IF gesture' # Null /\ gesture'.id = others[i].id
                    THEN others[i]
                    ELSE findWindowById(windows', others[i].id)]

\* what updateWorkletTargets writes to the shared values
writeTargets(targets) ==
    /\ snapTarget' = targets.snapTarget
    /\ hint' = [target |-> targets.hintTarget, guides |-> targets.hintGuides]

updateWorkletTargets(activeWindow, type, direction) ==
    writeTargets(computeWorkletTargets(
        activeWindow, type, direction, sharedWindows, canvas,
        resolveSnapConfig(config, snapEnabled),
        resolveHintConfig(hintConfig, snapEnabled), snapTarget))

clearSnapTarget == snapTarget' = Null

\* clearHintTarget leaving the guides on screen
clearHintTarget_keepsGuides == hint' = [hint EXCEPT !.target = Null]

clearHintTarget == hint' = NoHint

\* the gestures of the model: a drag and two resizes of window a, a drag of
\* window b
ViewGestures ==
    {[type |-> "drag", id |-> "a", direction |-> "none"],
     [type |-> "resize", id |-> "a", direction |-> "e"],
     [type |-> "drag", id |-> "b", direction |-> "none"]}

\* where the pointer takes the dragged window
ViewMoves(id) ==
    IF id = "a" THEN {<<16, 100>>, <<64, 100>>} ELSE {<<416, 100>>}

\* the translations of the pointer during a resize of the right edge
ViewTranslations == {16}

\* the windows of the view; the highest zIndex leaves the provider two more
\* to hand out
ViewWindows == <<StoreWindow("a", MaxZCounter - 2), StoreWindow("b", 0)>>

\* the view is mounted and locked, the canvas measured, nothing in progress
InitView ==
    /\ rect = Null /\ rectCanvas = Null /\ clamped = Null
    /\ interaction = Null
    /\ windows = ViewWindows
    /\ active = windows[1]
    /\ others = <<windows[2]>>
    /\ canvas = FrameCanvas
    /\ \E pair \in ConfigPairs, hintSnap \in BOOLEAN :
          /\ pair[1].distance = SNAP_DISTANCE
          /\ config = pair[1]
          /\ hintConfig = [pair[2] EXCEPT !.snap.enabled = hintSnap]
    /\ stickyTo = Null
    /\ snapTarget = Null
    /\ hint = NoHint
    /\ mode = "locked"
    /\ snapEnabled = TRUE
    /\ zCounter = maxZIndex(windows)
    /\ activeId = NullId
    /\ lastAction = Null
    /\ IdleViewVars

fixedVars == <<rect, rectCanvas, clamped, canvas, config, hintConfig, stickyTo,
               lastAction>>

\* the startInteraction calls waiting in the queue
pendingStarts ==
    Cardinality({i \in 1..Len(jsQueue) : jsQueue[i].call = "startInteraction"})

\* onBegin of the drag gesture and of the resize gestures
OnBegin ==
    \E g \in ViewGestures :
        /\ mode = "unlocked"
        /\ gesture = Null
        /\ Len(jsQueue) < MaxPending
        /\ zCounter + pendingStarts < MaxZCounter
        /\ gesture' = [type |-> g.type, id |-> g.id, direction |-> g.direction,
                       start |-> findWindowById(sharedWindows, g.id)]
        /\ jsQueue' = Append(jsQueue, [call |-> "startInteraction",
                                       interaction |-> g])
        /\ UNCHANGED <<fixedVars, interaction, active, others, snapTarget, hint,
                       mode, snapEnabled, windows, zCounter, activeId, released>>

\* the frame of a gesture: the rectangle proposed, then the targets
frame(next) ==
    /\ updateSharedWindow(gesture.id, next)
    /\ updateWorkletTargets(next, gesture.type, gesture.direction)

\* the rectangles onUpdate of the gesture in progress proposes: the drag
\* gesture moves the window with the pointer, a resize gesture moves the
\* edges of its direction; both clamp
onUpdateRects ==
    IF gesture.type = "drag"
    THEN {clampWindowToBounds(
              [findWindowById(sharedWindows, gesture.id)
                  EXCEPT !.x = m[1], !.y = m[2],
                         !.width = gesture.start.width,
                         !.height = gesture.start.height], canvas) :
              m \in ViewMoves(gesture.id)}
    ELSE {resizeNext(findWindowById(sharedWindows, gesture.id),
                     gesture.start, gesture.direction,
                     translationX, 0, canvas) :
              translationX \in ViewTranslations}

\* onUpdate of the drag gesture and of the resize gestures
OnUpdate ==
    /\ mode = "unlocked"
    /\ gesture # Null
    /\ \E next \in onUpdateRects : frame(next)
    /\ UNCHANGED <<fixedVars, interaction, mode, snapEnabled, windows,
                   zCounter, activeId, gesture, jsQueue, released>>

\* the target onFinalize moves the window to
finalTarget(id, snap, hintTarget) ==
    IF snap # Null /\ snap.activeId = id THEN snap
    ELSE IF hintTarget # Null /\ hintTarget.activeId = id THEN hintTarget
    ELSE Null

\* { activeId, window } of a target, as handed to onRelease
pickTarget(target) ==
    IF target = Null THEN Null
    ELSE [activeId |-> target.activeId, window |-> target.window]

rectOf(win) ==
    [x |-> win.x, y |-> win.y, width |-> win.width, height |-> win.height]

\* onFinalize of a gesture that read the given shared targets: the window
\* takes the rectangle of the final target, and updateInteraction(null),
\* onMove or onResize, and onRelease are handed to the JS thread
finalize(snap, hintTarget) ==
    LET id == gesture.id
        final == finalTarget(id, snap, hintTarget)
        finalRect == IF final # Null THEN rectOf(final.window)
                     ELSE rectOf(findWindowById(sharedWindows, id))
    IN /\ updateSharedWindow(id, finalRect)
       /\ jsQueue' = jsQueue \o
            <<[call |-> "updateInteraction"],
              [call |-> IF gesture.type = "drag" THEN "onMove" ELSE "onResize",
               id |-> id, window |-> finalRect],
              [call |-> "onRelease", id |-> id,
               snapTarget |-> pickTarget(snap),
               hintTarget |-> pickTarget(hintTarget)]>>
       /\ gesture' = Null

\* onFinalize: the pointer is lifted
OnFinalize ==
    /\ gesture # Null
    /\ Len(jsQueue) + 3 <= MaxPending
    /\ finalize(snapTarget, hint.target)
    /\ UNCHANGED <<fixedVars, interaction, snapTarget, hint, mode, snapEnabled,
                   windows, zCounter, activeId, released>>

\* startInteraction on the JS thread: onFocus, then setInteraction
RunStartInteraction ==
    /\ jsQueue # <<>>
    /\ Head(jsQueue).call = "startInteraction"
    /\ jsQueue' = Tail(jsQueue)
    /\ focusWindow(Head(jsQueue).interaction.id)
    /\ interaction' = Head(jsQueue).interaction
    /\ UNCHANGED gesture
    /\ syncShared
    /\ UNCHANGED <<fixedVars, snapTarget, hint, mode, snapEnabled, released>>

\* updateInteraction(null) on the JS thread
RunUpdateInteraction ==
    /\ jsQueue # <<>>
    /\ Head(jsQueue).call = "updateInteraction"
    /\ jsQueue' = Tail(jsQueue)
    /\ interaction' = Null
    /\ UNCHANGED <<fixedVars, active, others, snapTarget, hint, mode,
                   snapEnabled, windows, zCounter, activeId, gesture, released>>

\* onMove on the JS thread
RunOnMove ==
    /\ jsQueue # <<>>
    /\ Head(jsQueue).call = "onMove"
    /\ jsQueue' = Tail(jsQueue)
    /\ moveWindow(Head(jsQueue).id, Head(jsQueue).window.x,
                  Head(jsQueue).window.y)
    /\ UNCHANGED gesture
    /\ syncShared
    /\ UNCHANGED <<fixedVars, interaction, snapTarget, hint, mode, snapEnabled,
                   zCounter, activeId, released>>

\* onResize on the JS thread
RunOnResize ==
    /\ jsQueue # <<>>
    /\ Head(jsQueue).call = "onResize"
    /\ jsQueue' = Tail(jsQueue)
    /\ resizeWindow(Head(jsQueue).id, Head(jsQueue).window)
    /\ UNCHANGED gesture
    /\ syncShared
    /\ UNCHANGED <<fixedVars, interaction, snapTarget, hint, mode, snapEnabled,
                   zCounter, activeId, released>>

\* const target = snapTarget ?? (hintSnapEnabled ? (hintTarget ??
\* hintTargetSv.value) : null) ?? snapTargetSv.value
releaseTarget(snap, hintTarget) ==
    IF snap # Null THEN snap
    ELSE IF hintSnapEnabled /\ hintTarget # Null THEN hintTarget
    ELSE IF hintSnapEnabled /\ hint.target # Null THEN hint.target
    ELSE snapTarget

\* clampWindowToBounds({ ...target.window, id, zIndex: 0 }, canvasDimensions)
releaseWindow(target, id) ==
    rectOf(clampWindowToBounds(
        [target.window EXCEPT !.id = id, !.zIndex = 0], canvas))

\* what handleRelease was handed, what the shared values held, and the
\* rectangle it handed to resizeWindow (Null when it committed nothing)
Released(id, snap, hintTarget, committed) ==
    released' = [id |-> id, snapTarget |-> snap, hintTarget |-> hintTarget,
                 sharedSnapTarget |-> snapTarget,
                 sharedHintTarget |-> hint.target,
                 snapEnabled |-> snapEnabled,
                 hintSnapEnabled |-> hintSnapEnabled,
                 committed |-> committed,
                 after |-> [snapTarget |-> snapTarget', hint |-> hint']]

\* handleRelease committing the target whatever window it belongs to
handleRelease_anyTarget(id, snap, hintTarget) ==
    /\ clearSnapTarget
    /\ clearHintTarget
    /\ UNCHANGED gesture
    /\ IF snapEnabled /\ releaseTarget(snap, hintTarget) # Null
       THEN /\ resizeWindow(id, releaseWindow(releaseTarget(snap, hintTarget), id))
            /\ syncShared
            /\ Released(id, snap, hintTarget,
                        releaseWindow(releaseTarget(snap, hintTarget), id))
       ELSE /\ UNCHANGED <<windows, active, others>>
            /\ Released(id, snap, hintTarget, Null)

handleRelease(id, snap, hintTarget) ==
    /\ clearSnapTarget
    /\ clearHintTarget
    /\ UNCHANGED gesture
    /\ IF ~snapEnabled
       THEN /\ UNCHANGED <<windows, active, others>>
            /\ Released(id, snap, hintTarget, Null)
       ELSE IF \/ releaseTarget(snap, hintTarget) = Null
               \/ releaseTarget(snap, hintTarget).activeId # id
       THEN /\ UNCHANGED <<windows, active, others>>
            /\ Released(id, snap, hintTarget, Null)
       ELSE /\ resizeWindow(id, releaseWindow(releaseTarget(snap, hintTarget), id))
            /\ syncShared
            /\ Released(id, snap, hintTarget,
                        releaseWindow(releaseTarget(snap, hintTarget), id))

\* onRelease on the JS thread
RunOnRelease ==
    /\ jsQueue # <<>>
    /\ Head(jsQueue).call = "onRelease"
    /\ jsQueue' = Tail(jsQueue)
    /\ handleRelease(Head(jsQueue).id, Head(jsQueue).snapTarget,
                     Head(jsQueue).hintTarget)
    /\ UNCHANGED <<fixedVars, interaction, mode, snapEnabled, zCounter,
                   activeId>>

\* the mode effect without the clearing of the interaction and the targets
modeEffect_none ==
    UNCHANGED <<interaction, snapTarget, hint>>

\* the mode effect of WindowView
modeEffect ==
    IF mode' # "unlocked"
    THEN /\ interaction' = Null
         /\ clearSnapTarget
         /\ clearHintTarget
    ELSE UNCHANGED <<interaction, snapTarget, hint>>

\* toggleMode, the mode effect, and the end of the gesture in progress, which
\* a disabled gesture handler cancels; the cancelled gesture reads the shared
\* targets before or after the effect has cleared them
ModeChange ==
    /\ toggleMode
    /\ modeEffect
    /\ IF mode = "unlocked" /\ gesture # Null
       THEN /\ Len(jsQueue) + 3 <= MaxPending
            /\ \/ finalize(snapTarget, hint.target)
               \/ finalize(Null, Null)
       ELSE UNCHANGED <<gesture, jsQueue, active, others>>
    /\ UNCHANGED <<fixedVars, snapEnabled, windows, zCounter, activeId, released>>

\* toggleSnap and the effects on resolvedSnapConfig.enabled and
\* resolvedHintConfig.snap.enabled
SnapChange ==
    /\ toggleSnap
    /\ snapTarget' = IF ~resolveSnapConfig(config, snapEnabled').enabled
                     THEN Null ELSE snapTarget
    /\ hint' = IF ~resolveHintConfig(hintConfig, snapEnabled').snap.enabled
               THEN [hint EXCEPT !.target = Null] ELSE hint
    /\ UNCHANGED <<fixedVars, interaction, active, others, mode, windows,
                   zCounter, activeId, gesture, jsQueue, released>>

NextView ==
    \/ OnBegin
    \/ OnUpdate
    \/ OnFinalize
    \/ RunStartInteraction
    \/ RunUpdateInteraction
    \/ RunOnMove
    \/ RunOnResize
    \/ RunOnRelease
    \/ ModeChange
    \/ SnapChange

SpecView == InitView /\ [][NextView]_vars

----------------------------------------------------------------------------
(* View properties (SpecView)                                              *)

\* no gesture is in progress and every call handed to the JS thread has run
Idle == gesture = Null /\ jsQueue = <<>>

\* C13: once the interaction has ended and its end has been processed the
\* interaction is null, the snap target and the hint target are null and the
\* guide list is empty; nothing computed during tracking survives into idle
IdleIsCleared ==
    Idle => /\ interaction = Null
            /\ snapTarget = Null
            /\ hint.target = Null
            /\ hint.guides = <<>>

\* C13 witness: the view is idle again after a gesture whose release was
\* handed a snap target and found a hint target in the shared values
IdleIsClearedWitness ==
    /\ Idle
    /\ released # Null
    /\ released.snapTarget # Null
    /\ released.sharedHintTarget # Null

\* the shared targets and guides are all cleared
TargetsCleared == snapTarget = Null /\ hint = NoHint

ReleaseSnapTargets ==
    {released.snapTarget, released.sharedSnapTarget} \ {Null}

ReleaseHintTargets ==
    IF released.hintSnapEnabled
    THEN {released.hintTarget, released.sharedHintTarget} \ {Null}
    ELSE {}

\* the target the release prefers among those handed to it
PreferredTarget ==
    IF released.snapTarget # Null THEN released.snapTarget
    ELSE IF released.hintSnapEnabled THEN released.hintTarget
    ELSE Null

ForeignTargetNotCommitted ==
    /\ released # Null
    /\ released.snapEnabled
    /\ released.committed = Null
    /\ \E t \in ReleaseSnapTargets \cup ReleaseHintTargets :
          t.activeId # released.id

----------------------------------------------------------------------------
(* SpecCall: the four resolvers called once on arguments of the caller's    *)
(* choice, as the unit tests call them                                      *)

\* the rectangles of the active window: those of the unit tests, which need
\* not satisfy the size limits, and four of the default minimum size, one
\* at the right edge of FrameCanvas and one near the left edge of the canvas
CallActives ==
    {Window("a", 100, 100, 300, 300, NoStyle),
     Window("a", 100, 100, 200, 200, NoStyle),
     Window("a", 55, 55, 320, 240, NoStyle),
     Window("a", 100, 0, 200, 200, NoStyle),
     ActiveWindow(80, 100),
     ActiveWindow(64, 340),
     ActiveWindow(680, 100),
     ActiveWindow(16, 100)}

\* the sibling lists: none, the neighbours of the unit tests, the neighbours
\* of the frames, two neighbours equally far from the window at x 80 in
\* either order, a sibling whose centre alone lines up with the active
\* window's, a sibling whose left edge is less than a window's width from
\* the origin, and a sibling far from everything
CallSiblingLists ==
    {<<>>,
     <<Window("b", 420, 100, 300, 300, NoStyle)>>,
     <<Window("b", 100, 320, 200, 100, NoStyle)>>,
     <<Window("b", 100, 600, 220, 160, NoStyle)>>,
     <<Window("b", 400, 100, 320, 240, NoStyle)>>,
     <<Window("c", 96, 372, 320, 240, NoStyle)>>,
     <<Window("b", 400, 100, 320, 240, NoStyle),
       Window("c", 96, 372, 320, 240, NoStyle)>>,
     <<Window("b", 416, 100, 320, 240, NoStyle),
       Window("c", 96, 372, 320, 240, NoStyle)>>,
     <<Window("c", 96, 372, 320, 240, NoStyle),
       Window("b", 416, 100, 320, 240, NoStyle)>>,
     <<Window("c", 0, 600, 400, 100, NoStyle)>>,
     <<Window("c", 310, 372, 320, 240, NoStyle)>>,
     <<Window("c", 780, 720, 320, 240, NoStyle)>>}

CallCanvases == {Null, FrameCanvas, [width |-> 1200, height |-> 1200]}

\* the stickyTo arguments: none, the target of the unit test, a target of
\* the active window out of range, a target of the active window computed
\* when the canvas was at least 1016 wide, and the target of another window
CallStickies ==
    {Null,
     [activeId |-> "a", targetIds |-> <<"b">>, edges |-> <<"left">>,
      window |-> Window("a", 50, 50, 320, 240, NoStyle), distance |-> 5],
     [activeId |-> "a", targetIds |-> <<"b">>, edges |-> <<"top">>,
      window |-> Window("a", 700, 700, 320, 240, NoStyle), distance |-> 5],
     [activeId |-> "a", targetIds |-> <<"b">>, edges |-> <<"left">>,
      window |-> Window("a", 696, 100, 320, 240, NoStyle), distance |-> 8],
     ForeignSticky}

CallInteractions ==
    {[type |-> "drag", direction |-> "none"]}
    \cup {[type |-> "resize", direction |-> d] : d \in {"s", "e", "se", "nw"}}

\* the arguments are chosen, no resolver has been called
InitCall ==
    /\ rect = Null /\ rectCanvas = Null /\ clamped = Null
    /\ interaction \in CallInteractions
    /\ active \in CallActives
    /\ others \in CallSiblingLists
    /\ canvas \in CallCanvases
    /\ \E pair \in ConfigPairs : config = pair[1] /\ hintConfig = pair[2]
    /\ stickyTo \in (IF interaction.type = "drag" THEN CallStickies ELSE {Null})
    /\ snapTarget = NotCalled
    /\ hint = NoHint
    /\ IdleStoreVars
    /\ IdleViewVars

\* computeDragSnapTarget and computeDragHintTarget on the chosen arguments
CallDrag ==
    /\ interaction.type = "drag"
    /\ snapTarget = NotCalled
    /\ snapTarget' = computeDragSnapTarget(active, others, canvas, stickyTo,
                                           config)
    /\ hint' = computeDragHintTarget(active, others, canvas, hintConfig)
    /\ UNCHANGED <<interaction, active, others, canvas, config, hintConfig,
                   stickyTo>>
    /\ UNCHANGED <<clampVars, storeVars, viewVars>>

\* computeResizeSnapTarget and computeResizeHintTarget on the chosen arguments
CallResize ==
    /\ interaction.type = "resize"
    /\ snapTarget = NotCalled
    /\ snapTarget' = computeResizeSnapTarget(active, others,
                         interaction.direction, canvas, config)
    /\ hint' = computeResizeHintTarget(active, others, interaction.direction,
                                       canvas, hintConfig)
    /\ UNCHANGED <<interaction, active, others, canvas, config, hintConfig,
                   stickyTo>>
    /\ UNCHANGED <<clampVars, storeVars, viewVars>>

NextCall ==
    \/ CallDrag
    \/ CallResize

SpecCall == InitCall /\ [][NextCall]_vars

----------------------------------------------------------------------------
(* Properties of the resolvers called directly                              *)

DragCalled == snapTarget # NotCalled /\ interaction.type = "drag"
ResizeCalled == snapTarget # NotCalled /\ interaction.type = "resize"

\* the drag snap result snaps on the given axis only
SnapsOnlyOn(axisEdges) ==
    /\ DragCalled
    /\ snapTarget # Null
    /\ SeqToSet(snapTarget.edges) \subseteq axisEdges

\* the active rectangle as the clamper returns it
ClampedActive == clampWindowToBounds(active, canvas)

\* the drag snap result is computed from the siblings, not the stickyTo
\* argument handed back
FreshCall ==
    computeDragSnapTarget(active, others, canvas, Null, config) # Null

\* C17 as stated: a drag snap result that snaps on one axis only keeps the
\* active rectangle's other coordinate, width and height
OneAxisKeepsRestAsStated ==
    /\ SnapsOnlyOn({"left", "right"}) =>
          /\ snapTarget.window.y = active.y
          /\ snapTarget.window.width = active.width
          /\ snapTarget.window.height = active.height
    /\ SnapsOnlyOn({"top", "bottom"}) =>
          /\ snapTarget.window.x = active.x
          /\ snapTarget.window.width = active.width
          /\ snapTarget.window.height = active.height

\* C17: a drag snap result that is computed from the siblings (not the
\* stickyTo argument handed back) and snaps on one axis only has the other
\* coordinate, the width and the height of the clamped active rectangle,
\* which are the active rectangle's own when it satisfies the size limits
\* and the canvas bounds
OneAxisKeepsRest ==
    /\ (SnapsOnlyOn({"left", "right"}) /\ FreshCall) =>
          /\ snapTarget.window.y = ClampedActive.y
          /\ snapTarget.window.width = ClampedActive.width
          /\ snapTarget.window.height = ClampedActive.height
    /\ (SnapsOnlyOn({"top", "bottom"}) /\ FreshCall) =>
          /\ snapTarget.window.x = ClampedActive.x
          /\ snapTarget.window.width = ClampedActive.width
          /\ snapTarget.window.height = ClampedActive.height

\* a drag of an active rectangle within its limits has snapped its right
\* edge only and moved along x only
OneAxisKeepsRestWitness ==
    /\ SnapsOnlyOn({"right"})
    /\ FreshCall
    /\ ClampedActive = active
    /\ snapTarget.window.x # active.x
    /\ snapTarget.window.y = active.y

\* a window narrower than the minimum width snaps a vertical edge only and
\* comes back with the minimum width
OneAxisResizesUndersized ==
    /\ SnapsOnlyOn({"left", "right"})
    /\ FreshCall
    /\ snapTarget.window.width # active.width

\* the coordinates of the given edges of the siblings that lie within
\* config.distance of the given edge of the active rectangle
SiblingEdgesNear(edge, siblingEdges) ==
    {E \in {EdgeAt(others[i], e) :
                i \in {j \in 1..Len(others) : others[j].id # active.id},
                e \in siblingEdges} :
        Abs(EdgeAt(active, edge) - E) <= config.distance}

\* the resize snap result has exactly the given edges
ResizeSnapsOn(edges) ==
    /\ ResizeCalled
    /\ snapTarget # Null
    /\ SeqToSet(snapTarget.edges) = edges

\* the active rectangle given a width and a height and clamped
ResizedTo(width, height) ==
    clampWindowToBounds([active EXCEPT !.width = width, !.height = height],
                        canvas)

\* C18 as stated: a resize snap of the bottom edge to a sibling edge at E
\* returns height E - active.y and the active rectangle's x, y and width; a
\* resize snap of the right edge to E returns width E - active.x and the
\* active rectangle's x
ResizeSnapSizeAsStated ==
    /\ ResizeSnapsOn({"bottom"}) =>
          \E E \in SiblingEdgesNear("bottom", {"top", "bottom"}) :
              /\ snapTarget.window.height = E - active.y
              /\ snapTarget.window.x = active.x
              /\ snapTarget.window.y = active.y
              /\ snapTarget.window.width = active.width
    /\ ResizeSnapsOn({"right"}) =>
          \E E \in SiblingEdgesNear("right", {"left", "right"}) :
              /\ snapTarget.window.width = E - active.x
              /\ snapTarget.window.x = active.x

\* C18: a resize snap of the bottom edge to a sibling edge at E returns the
\* active rectangle with height E - active.y put through the clamper, a
\* resize snap of the right edge to E the active rectangle with width
\* E - active.x put through the clamper, and a snap of both edges the
\* rectangle with both; the height is E - active.y, the width E - active.x
\* and the rest unchanged whenever the clamper leaves that rectangle alone
ResizeSnapSize ==
    /\ ResizeSnapsOn({"bottom"}) =>
          \E E \in SiblingEdgesNear("bottom", {"top", "bottom"}) :
              snapTarget.window = ResizedTo(active.width, E - active.y)
    /\ ResizeSnapsOn({"right"}) =>
          \E E \in SiblingEdgesNear("right", {"left", "right"}) :
              snapTarget.window = ResizedTo(E - active.x, active.height)
    /\ ResizeSnapsOn({"right", "bottom"}) =>
          \E Ex \in SiblingEdgesNear("right", {"left", "right"}) :
              \E Ey \in SiblingEdgesNear("bottom", {"top", "bottom"}) :
                  snapTarget.window = ResizedTo(Ex - active.x, Ey - active.y)

\* a resize towards the south has moved the bottom edge of a window within
\* its limits onto a sibling edge and changed the height only
ResizeSnapSizeWitness ==
    /\ ResizeSnapsOn({"bottom"})
    /\ ClampedActive = active
    /\ snapTarget.window.height # active.height
    /\ snapTarget.window = [active EXCEPT !.height = snapTarget.window.height]
    /\ active.y + snapTarget.window.height
           \in SiblingEdgesNear("bottom", {"top", "bottom"})

\* the resize of the unit test: the 200 by 200 window resized 's' towards
\* the sibling at y 320 comes back with the minimum height, not 220
ResizeSnapAtMinimumHeight ==
    /\ ResizeSnapsOn({"bottom"})
    /\ active.height = 200
    /\ SiblingEdgesNear("bottom", {"top", "bottom"}) = {320}
    /\ snapTarget.window.height = DEFAULT_MIN_HEIGHT

\* a resize towards the east has moved the right edge onto a sibling edge
\* and changed the width only
ResizeSnapWidthOnly ==
    /\ ResizeSnapsOn({"right"})
    /\ snapTarget.window.width # active.width
    /\ snapTarget.window = [active EXCEPT !.width = snapTarget.window.width]
    /\ active.x + snapTarget.window.width
           \in SiblingEdgesNear("right", {"left", "right"})

\* the stickyTo argument is a target of the active window whose listed edges
\* are each within config.distance of the active rectangle's same edge
StickyArgumentValid ==
    /\ stickyTo # Null
    /\ stickyTo.activeId = active.id
    /\ StickyEdgesInRange

EmptyListDrag == DragCalled /\ others = <<>>

\* C19 as stated: with an empty sibling list computeDragSnapTarget returns
\* null whatever the stickyTo argument is
EmptyListNullAsStated == EmptyListDrag => snapTarget = Null

\* C19: with an empty sibling list computeDragSnapTarget returns null,
\* unless the stickyTo argument is a target of the active window with all
\* its listed edges in range, which is returned itself
EmptyListNull ==
    EmptyListDrag =>
        snapTarget = (IF StickyArgumentValid THEN stickyTo ELSE Null)

\* a drag with no sibling was handed a target of the active window whose
\* edge is out of range and has returned null
EmptyListNullWitness ==
    /\ EmptyListDrag
    /\ stickyTo # Null
    /\ stickyTo.activeId = active.id
    /\ ~StickyEdgesInRange
    /\ snapTarget = Null

\* the drag of the unit test: no sibling, and the sticky target still in
\* range comes back
EmptyListReturnsSticky ==
    /\ EmptyListDrag
    /\ StickyArgumentValid
    /\ snapTarget = stickyTo

\* a drag with no sibling was handed the target of another window with its
\* edge in range and has returned null
EmptyListIgnoresForeignSticky ==
    /\ EmptyListDrag
    /\ stickyTo # Null
    /\ stickyTo.activeId # active.id
    /\ StickyEdgesInRange
    /\ snapTarget = Null

HintCalled == snapTarget # NotCalled

\* the larger of the two thresholds of the hint resolvers
HintLimit == Max2(hintConfig.distance, hintConfig.snap.distance)

\* the given names of the active rectangle are each farther than the hint
\* thresholds from what they align with on the target
FarFrom(target, names) ==
    \A n \in names : \A m \in AlignsWith(n) :
        Abs(PositionOf(active, n) - PositionOf(target, m)) > HintLimit

\* every sibling is farther than the thresholds on every edge pair
SiblingsFar ==
    \A i \in 1..Len(others) : FarFrom(others[i], AllEdges)

\* the centres a drag aligns besides the edges
DragCentres ==
    IF interaction.type = "drag" THEN {"centerX", "centerY"} ELSE {}

\* every sibling and the known canvas are farther than the thresholds on
\* every edge pair and, for a drag, from centre to centre
NothingNear == \A t \in AlignmentTargets : FarFrom(t, AllEdges \cup DragCentres)

\* C20 as stated: with every sibling farther than the configured distance
\* on every edge pair the hint resolvers return no target and no guide,
\* whether the canvas is known or not
FarSiblingsNoHintAsStated == (HintCalled /\ SiblingsFar) => hint = NoHint

\* C20: with every sibling and, where the canvas is known, the canvas
\* rectangle farther than the configured distances from the active
\* rectangle on every edge pair and, for a drag, from centre to centre, the
\* hint resolvers return no target and no guide
FarSiblingsNoHint == (HintCalled /\ NothingNear) => hint = NoHint

\* a hint resolver was called with a sibling and a known canvas, both far
\* from the active rectangle, and has returned no target and no guide
FarSiblingsNoHintWitness ==
    /\ HintCalled
    /\ NothingNear
    /\ others # <<>>
    /\ canvas # Null
    /\ hint = NoHint

\* with no sibling at all the top edge of the active rectangle at the top
\* edge of the canvas yields a guide
CanvasAloneYieldsGuide ==
    /\ HintCalled
    /\ others = <<>>
    /\ canvas # Null
    /\ GuideNamesCanvas("horizontal")

\* a drag yields a guide from a sibling whose edges are all far and whose
\* centre lines up with the active rectangle's
CentreAloneYieldsGuide ==
    /\ HintCalled
    /\ SiblingsFar
    /\ canvas = Null
    /\ others # <<>>
    /\ hint.guides # <<>>

----------------------------------------------------------------------------
(* Further properties of the Bounds Clamper (SpecClamp)                     *)

\* C21: the clamped rectangle has x >= 0 and y >= 0 with and without a
\* canvas, and x <= canvas.width - width, y <= canvas.height - height when
\* the canvas is known
ClampNonNegative ==
    clamped # Null =>
        /\ clamped.x >= 0
        /\ clamped.y >= 0
        /\ rectCanvas # Null =>
              /\ clamped.x <= rectCanvas.width - clamped.width
              /\ clamped.y <= rectCanvas.height - clamped.height

\* without a canvas a rectangle left of and above the origin comes back
\* where it was
ClampKeepsNegativeWithoutCanvas ==
    /\ clamped # Null
    /\ rectCanvas = Null
    /\ rect.x < 0 /\ rect.y < 0
    /\ clamped.x = rect.x /\ clamped.y = rect.y

\* with a canvas the position is never negative and never past the canvas
ClampNonNegativeWithCanvas ==
    (clamped # Null /\ rectCanvas # Null) =>
        /\ clamped.x >= 0
        /\ clamped.y >= 0
        /\ clamped.x <= rectCanvas.width - clamped.width
        /\ clamped.y <= rectCanvas.height - clamped.height

\* the canvas is known and the size of the rectangle lies within its limits:
\* minWidth <= width <= maxWidth <= canvas.width, and the same for the height
SizeWithinLimits ==
    /\ rectCanvas # Null
    /\ resolveMinWidth(rect) <= rect.width
    /\ rect.width <= resolveMaxWidth(rect, rectCanvas)
    /\ resolveMaxWidth(rect, rectCanvas) <= rectCanvas.width
    /\ resolveMinHeight(rect) <= rect.height
    /\ rect.height <= resolveMaxHeight(rect, rectCanvas)
    /\ resolveMaxHeight(rect, rectCanvas) <= rectCanvas.height

\* C22: with a known canvas and a size within its limits the clamper keeps
\* width and height and only moves the position: x = min(max(0, x),
\* canvas.width - width), y = min(max(0, y), canvas.height - height)
ClampShiftsOnly ==
    (clamped # Null /\ SizeWithinLimits) =>
        clamped = [rect EXCEPT
                      !.x = Min2(Max2(0, rect.x), rectCanvas.width - rect.width),
                      !.y = Min2(Max2(0, rect.y),
                                 rectCanvas.height - rect.height)]

\* a rectangle of a size within its limits that overflowed the canvas on the
\* right has been shifted back inside with its width and height
ClampShiftsOnlyWitness ==
    /\ clamped # Null
    /\ SizeWithinLimits
    /\ rect.x + rect.width > rectCanvas.width
    /\ clamped.x = rectCanvas.width - rect.width
    /\ clamped.x > 0
    /\ clamped.width = rect.width
    /\ clamped.height = rect.height

----------------------------------------------------------------------------
(* Tie-break of the snap resolvers (SpecCall)                               *)

\* the order in which the edge pairs <<active edge, sibling edge>> of one
\* sibling are checked
EdgeCheckOrder(axis) ==
    IF interaction.type = "drag"
    THEN IF axis = "horizontal"
         THEN <<<<"right", "left">>, <<"right", "right">>,
                <<"left", "right">>, <<"left", "left">>>>
         ELSE <<<<"top", "bottom">>, <<"bottom", "top">>,
                <<"bottom", "bottom">>, <<"top", "top">>>>
    ELSE IF axis = "horizontal"
         THEN <<<<"right", "left">>, <<"right", "right">>,
                <<"left", "left">>, <<"left", "right">>>>
         ELSE <<<<"bottom", "top">>, <<"bottom", "bottom">>,
                <<"top", "top">>, <<"top", "bottom">>>>

\* the edges of the active window the interaction may snap
SnappedEdges ==
    IF interaction.type = "drag" THEN AllEdges
    ELSE MovedEdges(interaction.direction)

\* what is generated for one edge pair of sibling o
PairEntry(o, pair) ==
    [edge |-> pair[1], targetId |-> o.id,
     distance |-> Abs(EdgeAt(active, pair[1]) - EdgeAt(o, pair[2]))]

\* the candidates of an axis in the order the claim describes: sibling by
\* sibling in the order of the list, edge pair by edge pair in check order
GeneratedInOrder(axis) ==
    ConcatAll([i \in 1..Len(others) |->
        IF \/ others[i].id = active.id
           \/ ~(IF axis = "horizontal"
                THEN PassesGate(others[i], "top", "bottom")
                ELSE PassesGate(others[i], "left", "right"))
        THEN <<>>
        ELSE SelectSeq([k \in 1..4 |-> PairEntry(others[i], EdgeCheckOrder(axis)[k])],
                       LAMBDA e : /\ e.edge \in SnappedEdges
                                   /\ e.distance <= config.distance)])

\* edge, target and distance of the candidates of a list
Entries(candidates) ==
    [k \in 1..Len(candidates) |->
        [edge |-> candidates[k].edges[1],
         targetId |-> candidates[k].targetIds[1],
         distance |-> candidates[k].distance]]

\* the first candidate of minimal distance
FirstClosest(candidates) ==
    candidates[CHOOSE k \in 1..Len(candidates) :
        /\ \A j \in 1..Len(candidates) :
              candidates[k].distance <= candidates[j].distance
        /\ \A j \in 1..(k - 1) :
              candidates[j].distance > candidates[k].distance]

\* an earlier and a later candidate of the list share the minimal distance
\* and differ
HasTie(candidates) ==
    \E j, k \in 1..Len(candidates) :
        /\ j < k
        /\ candidates[j].distance = candidates[k].distance
        /\ candidates[j] # candidates[k]
        /\ \A i \in 1..Len(candidates) :
              candidates[j].distance <= candidates[i].distance

TieAcrossSiblings ==
    /\ DragCalled
    /\ stickyTo = Null
    /\ snapTarget # Null
    /\ \E c, d \in SeqToSet(FrameCandidates.horizontal) :
          /\ c.targetIds # d.targetIds
          /\ c.distance = d.distance
          /\ c.distance = FirstClosest(FrameCandidates.horizontal).distance
    /\ snapTarget.targetIds[1] = others[1].id

----------------------------------------------------------------------------
(* The windows of the returned targets (SpecCall)                           *)

\* the window of a target is clamped for the canvas of the call
ClampedForCanvas(target) ==
    clampWindowToBounds(target.window, canvas) = target.window

\* the snap target is the stickyTo argument handed back
StickyHandedBack ==
    /\ DragCalled
    /\ ~FreshCall
    /\ snapTarget # Null

\* C24 as stated: every non-null target of the four resolvers carries a
\* window clamped for the canvas of the call, a sticky target handed back
\* included
TargetsClampedAsStated ==
    HintCalled =>
        /\ snapTarget # Null => ClampedForCanvas(snapTarget)
        /\ hint.target # Null => ClampedForCanvas(hint.target)

\* C24: every non-null target the four resolvers compute in the call carries
\* a window clamped for the canvas of the call; a sticky target handed back
\* carries the window it was handed in with
TargetsClamped ==
    HintCalled =>
        /\ (snapTarget # Null /\ ~StickyHandedBack)
              => ClampedForCanvas(snapTarget)
        /\ StickyHandedBack => snapTarget.window = stickyTo.window
        /\ hint.target # Null => ClampedForCanvas(hint.target)

\* a call with an active window below its minimum size and a known canvas
\* has returned a snap target and a hint target, both clamped
TargetsClampedWitness ==
    /\ DragCalled
    /\ canvas # Null
    /\ ClampedActive # active
    /\ snapTarget # Null /\ ~StickyHandedBack
    /\ hint.target # Null
    /\ ClampedForCanvas(snapTarget)
    /\ ClampedForCanvas(hint.target)

\* a sticky target computed under a wider canvas has been handed back with
\* its window reaching past the right edge of the canvas of the call
StickyWindowPastCanvas ==
    /\ StickyHandedBack
    /\ canvas # Null
    /\ ClampedActive = active
    /\ snapTarget.window.x + snapTarget.window.width > canvas.width

----------------------------------------------------------------------------
(* Alignment of the drag snap target (SpecCall)                             *)

\* the siblings the snap target lists
ListedSiblings ==
    {others[i] : i \in {j \in 1..Len(others) :
                           /\ others[j].id # active.id
                           /\ others[j].id \in SeqToSet(snapTarget.targetIds)}}

\* the given edge of the target's window lies on an edge of the same axis of
\* a listed sibling
AlignedEdge(e) ==
    \E o \in ListedSiblings : \E m \in AlignsWith(e) :
        EdgeAt(snapTarget.window, e) = EdgeAt(o, m)

\* the active rectangle moved so that its given edge lies at coordinate E
ShiftedTo(e, E) ==
    CASE e = "left" -> [active EXCEPT !.x = E]
      [] e = "right" -> [active EXCEPT !.x = E - active.width]
      [] e = "top" -> [active EXCEPT !.y = E]
      [] e = "bottom" -> [active EXCEPT !.y = E - active.height]

\* the given edge of the target's window lies where the clamper puts it once
\* the active rectangle is moved onto an edge, within config.distance, of a
\* listed sibling
AlignedEdgeClamped(e) ==
    \E o \in ListedSiblings : \E m \in AlignsWith(e) :
        /\ Abs(EdgeAt(active, e) - EdgeAt(o, m)) <= config.distance
        /\ EdgeAt(snapTarget.window, e)
              = EdgeAt(clampWindowToBounds(ShiftedTo(e, EdgeAt(o, m)), canvas), e)

FreshDragTarget == DragCalled /\ FreshCall /\ snapTarget # Null

\* C25 as stated: every edge listed in a freshly computed drag snap target
\* coincides, on the target's window, with an edge of a sibling listed in
\* targetIds
SnapAlignsAsStated ==
    FreshDragTarget => \A e \in SeqToSet(snapTarget.edges) : AlignedEdge(e)

\* C25: every edge listed in a freshly computed drag snap target lies, on
\* the target's window, where clampWindowToBounds puts it after the active
\* rectangle is moved onto an edge of a listed sibling within
\* config.distance; it coincides with the sibling's edge whenever the moved
\* rectangle satisfies the size limits and the canvas bounds
SnapAligns ==
    FreshDragTarget => \A e \in SeqToSet(snapTarget.edges) : AlignedEdgeClamped(e)

\* a drag of a window within its limits on a known canvas has returned a
\* target that moves it so that every listed edge lies on a sibling's edge
SnapAlignsWitness ==
    /\ FreshDragTarget
    /\ canvas # Null
    /\ ClampedActive = active
    /\ snapTarget.window # active
    /\ \A e \in SeqToSet(snapTarget.edges) : AlignedEdge(e)

\* the drag of the unit test: the right edge of the 300 wide window is
\* snapped, and the returned window, 320 wide, reaches 20 past the sibling
SnapOvershootsWhenUndersized ==
    /\ FreshDragTarget
    /\ "right" \in SeqToSet(snapTarget.edges)
    /\ active.width = 300
    /\ \E o \in ListedSiblings :
          EdgeAt(snapTarget.window, "right") = EdgeAt(o, "left") + 20

\* a drag of a window within its limits next to a sibling whose left edge
\* is less than the window's width from the canvas origin: the snapped
\* window is held at x = 0 and its right edge does not reach the sibling
SnapHeldByCanvas ==
    /\ FreshDragTarget
    /\ canvas # Null
    /\ ClampedActive = active
    /\ "right" \in SeqToSet(snapTarget.edges)
    /\ snapTarget.window.x = 0
    /\ ~AlignedEdge("right")

----------------------------------------------------------------------------
(* The edge opposite to the resized one (SpecCall)                          *)

\* the active rectangle lies inside the canvas, if the canvas is known
ActiveInsideCanvas ==
    canvas # Null =>
        /\ active.x >= 0 /\ active.y >= 0
        /\ active.x + active.width <= canvas.width
        /\ active.y + active.height <= canvas.height

ResizeTargetOf(e) ==
    /\ ResizeCalled
    /\ ActiveInsideCanvas
    /\ snapTarget # Null
    /\ e \in SeqToSet(snapTarget.edges)

\* C26: a resize snap never moves the edge opposite to the one it snaps,
\* for an active rectangle inside the canvas: 'left' keeps the right edge,
\* 'top' the bottom edge, 'right' the left edge and 'bottom' the top edge
OppositeEdgeKept ==
    /\ ResizeTargetOf("left") =>
          EdgeAt(snapTarget.window, "right") = EdgeAt(active, "right")
    /\ ResizeTargetOf("top") =>
          EdgeAt(snapTarget.window, "bottom") = EdgeAt(active, "bottom")
    /\ ResizeTargetOf("right") => snapTarget.window.x = active.x
    /\ ResizeTargetOf("bottom") => snapTarget.window.y = active.y

\* a window of the minimum width, resized at its left edge, has been snapped
\* to a sibling edge to the right of that edge: the returned window keeps
\* the minimum width and its right edge has moved
OppositeEdgeMoved ==
    /\ ResizeTargetOf("left")
    /\ ClampedActive = active
    /\ snapTarget.window.x > active.x
    /\ snapTarget.window.width = resolveMinWidth(active)
    /\ EdgeAt(snapTarget.window, "right") > EdgeAt(active, "right")

\* a snap of the right or bottom edge of a window within its limits leaves
\* the left and the top edge where they are
NearEdgeKept ==
    /\ (ResizeTargetOf("right") /\ ClampedActive = active)
          => snapTarget.window.x = active.x
    /\ (ResizeTargetOf("bottom") /\ ClampedActive = active)
          => snapTarget.window.y = active.y

----------------------------------------------------------------------------
(* SpecThread: the effect of useSnapTarget during a drag, rerun when the    *)
(* dragged window moves and when a sibling leaves the window list           *)

\* the drag begins: no frame computed yet, no target kept
InitThread ==
    /\ rect = Null /\ rectCanvas = Null /\ clamped = Null
    /\ interaction = [type |-> "drag", direction |-> "none"]
    /\ active = StartWindow
    /\ others \in SiblingLists
    /\ canvas \in {Null, FrameCanvas}
    /\ \E pair \in ConfigPairs : config = pair[1] /\ hintConfig = pair[2]
    /\ stickyTo = NotCalled
    /\ snapTarget = Null
    /\ hint = NoHint
    /\ mode = "unlocked" /\ snapEnabled = TRUE /\ windows = <<>>
    /\ zCounter = 0 /\ activeId = NullId /\ lastAction = Null
    /\ IdleViewVars

\* a sibling leaves the window list: the effect runs again on the new list,
\* the target kept in latestSnapTargetRef handed over as stickyTo
SiblingRemoved ==
    \E i \in 1..Len(others) :
        /\ others' = SubSeq(others, 1, i - 1) \o SubSeq(others, i + 1, Len(others))
        /\ stickyTo' = snapTarget
        /\ snapTarget' = computeDragSnapTarget(active, others', canvas,
                                               snapTarget, config)
        /\ hint' = computeDragHintTarget(active, others', canvas, hintConfig)
        /\ UNCHANGED <<interaction, active, canvas, config, hintConfig>>
        /\ UNCHANGED <<clampVars, storeVars, viewVars>>

NextThread ==
    \/ \E m \in Moves : DragFrame(m[1], m[2])
    \/ SiblingRemoved

SpecThread == InitThread /\ [][NextThread]_vars

----------------------------------------------------------------------------
(* Properties of the threaded snap target (SpecThread)                      *)

SiblingIds == {others[i].id : i \in 1..Len(others)}

TargetNamesOnlySiblings ==
    SeqToSet(snapTarget.targetIds) \subseteq SiblingIds

\* C27 as stated: every id in the targetIds of the current snap target is
\* the id of a window in the current sibling list
TargetIdsPresentAsStated ==
    (FrameDone /\ snapTarget # Null) => TargetNamesOnlySiblings

\* C27: every id in the targetIds of a snap target computed from the current
\* sibling list is the id of a window in that list; when the list yields no
\* candidate, the target of the previous frame is kept, with its targetIds,
\* as long as it is a target of the dragged window with its edges in range,
\* whether or not the windows it names are still in the list
TargetIdsPresent ==
    FrameDone =>
        /\ (snapTarget # Null /\ FreshTarget # Null) => TargetNamesOnlySiblings
        /\ FreshTarget = Null =>
              snapTarget = (IF StickyArgumentValid THEN stickyTo ELSE Null)

\* the target of the previous frame named a window that has left the list,
\* and the target computed from the remaining siblings names only them
TargetIdsPresentWitness ==
    /\ FrameDone
    /\ stickyTo # Null
    /\ ~(SeqToSet(stickyTo.targetIds) \subseteq SiblingIds)
    /\ snapTarget # Null
    /\ FreshTarget # Null
    /\ TargetNamesOnlySiblings

\* the target of the previous frame is kept although the only window it
\* names has left the list
KeptTargetNamesRemovedWindow ==
    /\ FrameDone
    /\ snapTarget # Null
    /\ snapTarget = stickyTo
    /\ SeqToSet(snapTarget.targetIds) \cap SiblingIds = {}

----------------------------------------------------------------------------
(* Properties of the provider's activeId (SpecStore)                        *)

\* C28 as stated: after every sequence of provider actions activeId is null
\* or the id of a window of the list
ActiveIdListed ==
    activeId = NullId \/ hasWindow(windows, activeId)

\* focusWindow was handed an id that no window of the list carries, and
\* activeId is that id
ActiveIdUnknown ==
    /\ lastAction # Null
    /\ lastAction.name = "focusWindow"
    /\ windows # <<>>
    /\ ~hasWindow(windows, lastAction.id)
    /\ activeId = lastAction.id

\* when setWindows removes the active window, activeId becomes the id of the
\* first remaining window, or null if none remains
RemovedActiveReplaced ==
    [][(/\ lastAction'.name = "setWindows"
        /\ hasWindow(windows, activeId)
        /\ ~hasWindow(windows', activeId))
       => activeId' = (IF windows' = <<>> THEN NullId ELSE windows'[1].id)]_vars

\* every action but focusWindow keeps activeId null or listed
OnlyFocusBreaksActiveId ==
    [][(ActiveIdListed /\ lastAction'.name # "focusWindow")
       => (activeId' = NullId \/ hasWindow(windows', activeId'))]_vars

\* setWindows has removed the active window and another one is active
ActiveReplacedByFirst ==
    /\ lastAction # Null
    /\ lastAction.name = "setWindows"
    /\ activeId # NullId
    /\ windows # <<>>
    /\ activeId = windows[1].id
    /\ windows[1].zIndex < zCounter

----------------------------------------------------------------------------
(* The overlap threshold of the snap configuration (SpecCall)               *)

\* values of config.overlap: none, the default, and more than any window
SnapOverlaps == {0, SNAP_OVERLAP, 400}

\* the call of the state repeated with another snap configuration
SnapResultWith(cfg) ==
    IF interaction.type = "drag"
    THEN computeDragSnapTarget(active, others, canvas, stickyTo, cfg)
    ELSE computeResizeSnapTarget(active, others, interaction.direction,
                                 canvas, cfg)

VerticalOverlapWith(o) ==
    computeOverlap(active.y, active.y + active.height, o.y, o.y + o.height)

SnapsWithoutOverlap ==
    /\ DragCalled \/ ResizeCalled
    /\ snapTarget # Null
    /\ Len(others) = 1
    /\ snapTarget.targetIds = <<others[1].id>>
    /\ VerticalOverlapWith(others[1]) <= 0
    /\ computeOverlap(active.x, active.x + active.width,
                      others[1].x, others[1].x + others[1].width) <= 0

----------------------------------------------------------------------------
(* The shared target slots and two windows (SpecView)                       *)

\* the shared snap target slot holds a target computed for another window
\* than the one under the gesture
ForeignSnapTarget ==
    /\ gesture # Null
    /\ snapTarget # Null
    /\ snapTarget.activeId # gesture.id

\* the targets of the shared slots that belong to the window of the given id
OwnTargets(id) ==
    {t \in {snapTarget, hint.target} \ {Null} : t.activeId = id}

\* the rectangle of the window of the given id in the lists before and after
\* the step
SharedRect(id) == rectOf(findWindowById(sharedWindows, id))
SharedRectAfter(id) == rectOf(findWindowById(<<active'>> \o others', id))

ForeignStickyReplaced ==
    /\ gesture # Null
    /\ gesture.id = "a"
    /\ snapTarget # Null
    /\ snapTarget.activeId = "a"
    /\ \E i \in 1..Len(jsQueue) :
          /\ jsQueue[i].call = "onRelease"
          /\ jsQueue[i].id = "b"
          /\ jsQueue[i].snapTarget # Null

====
